---- MODULE Spec2Model ----
(***************************************************************************)
(* lynx-mapper: the schema-driven object mapper.  The synchronous engine   *)
(* (ObjectMapper, src/src/object-mapper.ts) and the asynchronous engine    *)
(* (AsyncObjectMapper, src/unnamed/part_004) over JavaScript values.       *)
(***************************************************************************)
EXTENDS Integers, Sequences, FiniteSets, TLC

VARIABLES
    engine,     \* "none" before construction, then "sync" or "async"
    decl,       \* the schema literal as the caller wrote it: <<[k, v], ...>>
    types,      \* the type arguments of create<TInput, TOutput, TContext>()
    schema,     \* the public readonly schema: the caller's schema object
    schemaMap,  \* the protected readonly Map built by the constructor
    call,       \* the last call made on the engine: op, input, context
    result,     \* how that call completed: returned / threw, and the value
    log,        \* the field reads and transform invocations of that call
    tasks,      \* the async map calls in flight, each its frame at the await
    heap        \* the other objects the caller holds, a reference is a position

vars == <<engine, decl, types, schema, schemaMap, call, result, log, tasks, heap>>

----------------------------------------------------------------------------
(* Bounds of the model *)

\* the largest number of rules of a schema literal
MaxRules == 2

\* the largest number of elements of an input sequence
MaxItems == 2

----------------------------------------------------------------------------
(* JavaScript values *)

Null == [kind |-> "null"]

Undefined == [kind |-> "undefined"]

Str(s) == [kind |-> "string", s |-> s]

\* export const OmitProperty: unique symbol = Symbol("OmitProperty")
OmitProperty == [kind |-> "symbol", s |-> "OmitProperty"]

Fn(name) == [kind |-> "function", s |-> name]

Obj(entries) == [kind |-> "object", entries |-> entries]

Arr(items) == [kind |-> "array", items |-> items]

\* a finite iterable that is not an array (a Set, a generator)
Iter(items) == [kind |-> "iterable", items |-> items]

TypeError(msg) == [kind |-> "error", s |-> msg]

\* input === null || input === undefined
IsNullish(v) == v = Null \/ v = Undefined

----------------------------------------------------------------------------
(* Ordinary objects: own properties in the order Object.entries gives     *)
(* them, integer-like keys ascending first, then the other keys in the    *)
(* order they were created.                                               *)

IsArrayIndex(k) == k \in {"0", "1", "2"}

ToIndex(k) == CASE k = "0" -> 0 [] k = "1" -> 1 [] k = "2" -> 2 [] OTHER -> -1

HasOwn(entries, k) == \E i \in 1..Len(entries) : entries[i].k = k

OwnKeys(entries) == [i \in 1..Len(entries) |-> entries[i].k]

KeySet(entries) == {entries[i].k : i \in 1..Len(entries)}

\* input[name]: the value of the property, undefined when there is none
GetProp(o, k) ==
    IF o.kind = "object" /\ HasOwn(o.entries, k)
    THEN (CHOOSE e \in {o.entries[i] : i \in 1..Len(o.entries)} : e.k = k).v
    ELSE Undefined

InsertAt(s, i, e) == SubSeq(s, 1, i - 1) \o <<e>> \o SubSeq(s, i, Len(s))

\* output[key] = value
SetProp(entries, k, v) ==
    IF HasOwn(entries, k)
    THEN [i \in 1..Len(entries) |->
            IF entries[i].k = k THEN [k |-> k, v |-> v] ELSE entries[i]]
    ELSE IF IsArrayIndex(k)
    THEN LET later == {j \in 1..Len(entries) :
                          \/ ~IsArrayIndex(entries[j].k)
                          \/ ToIndex(entries[j].k) > ToIndex(k)}
             at == IF later = {} THEN Len(entries) + 1
                   ELSE CHOOSE j \in later : \A j2 \in later : j <= j2
         IN  InsertAt(entries, at, [k |-> k, v |-> v])
    ELSE Append(entries, [k |-> k, v |-> v])

\* the object an object literal { k1: v1, k2: v2 } evaluates to
RECURSIVE ObjectLiteral(_)
ObjectLiteral(d) ==
    IF d = <<>> THEN <<>>
    ELSE SetProp(ObjectLiteral(SubSeq(d, 1, Len(d) - 1)), d[Len(d)].k, d[Len(d)].v)

\* Object.entries(schema)
ObjectEntries(o) == o.entries

\* new Map(entries): set() per entry, a key keeps the place of its first set()
RECURSIVE NewMap(_)
NewMap(es) ==
    IF es = <<>> THEN <<>>
    ELSE LET m == NewMap(SubSeq(es, 1, Len(es) - 1))
             e == es[Len(es)]
         IN  IF HasOwn(m, e.k)
             THEN [i \in 1..Len(m) |-> IF m[i].k = e.k THEN e ELSE m[i]]
             ELSE Append(m, e)

----------------------------------------------------------------------------
(* The callables a schema holds: the transforms of the test suite and the *)
(* convenience transforms of mapFrom.  A call completes normally with a   *)
(* value or abruptly with a thrown error.                                 *)

Normal(v) == [threw |-> FALSE, value |-> v]

Throw(e) == [threw |-> TRUE, value |-> e]

\* String.prototype.toUpperCase
ToUpperCase(s) == CASE s = "x" -> "X" [] s = "y" -> "Y" [] OTHER -> s

\* (input) => input.in1.toUpperCase()
toUpperCase(input, context) ==
    LET v == GetProp(input, "in1")
    IN  IF v.kind = "string" THEN Normal(Str(ToUpperCase(v.s)))
        ELSE Throw(TypeError("in1.toUpperCase"))

\* (_, context) => context.inStringOverride
inStringOverride(input, context) ==
    IF IsNullish(context) THEN Throw(TypeError("context.inStringOverride"))
    ELSE Normal(GetProp(context, "inStringOverride"))

\* mutant: every call makes its own Symbol("OmitProperty")
omitMakesItsOwnSymbol(input, context) ==
    Normal([kind |-> "symbol", s |-> "OmitProperty", made |-> "omit"])

\* mapFrom.omit
omit(input, context) == Normal(OmitProperty)

\* mapFrom.null
mapFromNull(input, context) == Normal(Null)

\* mapFrom.undefined
mapFromUndefined(input, context) == Normal(Undefined)

\* mapFrom.constant(value): the function it returns, closed over value
mapFromConstant(value) == [kind |-> "function", s |-> "constant", value |-> value]

\* function constant() { return value; }
constant(value, input, context) == Normal(value)

\* Promise.resolve(value)
PromiseResolve(value) == [kind |-> "promise", settles |-> Normal(value)]

\* mapFromAsync.constant(value): function constant() { return Promise.resolve(value); }
mapFromAsyncConstant(value, input, context) == Normal(PromiseResolve(value))

\* mapFromAsync.omit
mapFromAsyncOmit(input, context) == Normal(PromiseResolve(OmitProperty))

\* mapFromAsync.null
mapFromAsyncNull(input, context) == Normal(PromiseResolve(Null))

\* mapFromAsync.undefined
mapFromAsyncUndefined(input, context) == Normal(PromiseResolve(Undefined))

\* keys.reduce((acc, key) => { acc[key] = key; return acc; }, {})
RECURSIVE reduce(_, _)
reduce(keys, acc) ==
    IF keys = <<>> THEN acc
    ELSE reduce(Tail(keys), SetProp(acc, Head(keys), Str(Head(keys))))

\* mutant: every rule refers to the first of the keys
pickRefersToTheFirstKey(keys) ==
    Obj([i \in 1..Len(reduce(keys, <<>>)) |->
            [k |-> reduce(keys, <<>>)[i].k, v |-> Str(keys[1])]])

\* mapFrom.pick(...keys)
pick(keys) == Obj(reduce(keys, <<>>))

\* mapFromAsync.pick(...keys): return mapFrom.pick(...keys)
mapFromAsyncPick(keys) == pick(keys)

\* getterOrString(input, context); the callable that toFunction() returns
\* is (value, context) => this.map(value, context)
RECURSIVE map(_, _, _)

\* (value, context) => this.map(value, context): the call the callable of
\* toFunction() makes on its engine
objectMapperFunction(this, input, context) ==
    [op |-> "map", this |-> this.this, input |-> input, context |-> context]

\* mutant: the nested engine is called with the context of the outer call
nestedMapPassesTheOuterContext(this, input, context) ==
    [op |-> "map", this |-> this.mapper,
     input |-> Obj(<<[k |-> "in1", v |-> GetProp(input, "in1")]>>), context |-> context]

\* (input) => nestedObjectMapper.map({ baz: input.foo }, { capitalize: true }):
\* the call the rule makes; this is the closure, with the nested engine and
\* the sub-context
nestedMap(this, input, context) ==
    [op |-> "map", this |-> this.mapper,
     input |-> Obj(<<[k |-> "in1", v |-> GetProp(input, "in1")]>>),
     context |-> this.subContext]

\* (input) => nestedObjectMapper.map(input.nullable, subContext)
nestedNullable(this, input, context) ==
    [op |-> "map", this |-> this.mapper, input |-> GetProp(input, "nested"),
     context |-> this.subContext]

\* (input) => nestedObjectMapper.array(input.inputArray, subContext)
nestedArray(this, input, context) ==
    [op |-> "array", this |-> this.mapper, input |-> GetProp(input, "list"),
     context |-> this.subContext]

\* the inputs of the map calls of the call: its input, or for an array
\* call the items of its input
ItemsOf(c) ==
    IF c.op = "array" /\ ~IsNullish(c.input) THEN c.input.items ELSE <<c.input>>

\* what the call gives, from what its map calls rs gave: for array, an
\* absent input as it is, the first error thrown, or the array of the values
Gather(c, rs) ==
    LET failed == {i \in 1..Len(rs) : rs[i].threw}
    IN  IF c.op = "map" THEN rs[1]
        ELSE IF IsNullish(c.input) THEN Normal(c.input)
        ELSE IF failed # {}
        THEN Throw(rs[CHOOSE i \in failed : \A i2 \in failed : i <= i2].value)
        ELSE Normal(Arr([i \in 1..Len(rs) |-> rs[i].value]))

\* the call is made on the other engine: c.this.map(c.input, c.context), or
\* c.this.array(c.input, c.context), which for an array is
\* c.input.map((item) => this.map(item, c.context))
Delegate(c) ==
    Gather(c, [i \in 1..Len(ItemsOf(c)) |->
                  map(c.this.schemaMap, ItemsOf(c)[i], c.context)])

Invoke(fn, input, context) ==
    CASE fn.s = "toUpperCase" -> toUpperCase(input, context)
      [] fn.s = "inStringOverride" -> inStringOverride(input, context)
      [] fn.s = "omit" -> omit(input, context)
      [] fn.s = "null" -> mapFromNull(input, context)
      [] fn.s = "undefined" -> mapFromUndefined(input, context)
      [] fn.s = "constant" -> constant(fn.value, input, context)
      [] OTHER ->
             Delegate(CASE fn.s = "objectMapperFunction" ->
                               objectMapperFunction(fn, input, context)
                        [] fn.s = "nestedMap" -> nestedMap(fn, input, context)
                        [] fn.s = "nestedNullable" -> nestedNullable(fn, input, context)
                        [] fn.s = "nestedArray" -> nestedArray(fn, input, context))

\* typeof value === "function"
isMapperFunction(value) == value.kind = "function"

----------------------------------------------------------------------------
(* ObjectMapper: the synchronous engine *)

\* one entry of the log: the rule evaluated, with the arguments it was given
Event(key, rule, input, context) ==
    [k |-> key, rule |-> rule, input |-> input, context |-> context]

Returned(v, l) == [threw |-> FALSE, value |-> v, log |-> l]

Threw(e, l) == [threw |-> TRUE, value |-> e, log |-> l]

Written(output) == [threw |-> FALSE, value |-> Undefined, output |-> output]

Raised(e, output) == [threw |-> TRUE, value |-> e, output |-> output]

\* mutant: a field reference whose value is undefined leaves the key out
mapRuleSkipsUndefinedField(key, getterOrString, input, context, output) ==
    IF ~isMapperFunction(getterOrString)
    THEN IF GetProp(input, getterOrString.s) = Undefined THEN Written(output)
         ELSE Written(SetProp(output, key, GetProp(input, getterOrString.s)))
    ELSE LET mappedValue == Invoke(getterOrString, input, context)
         IN  IF mappedValue.threw THEN Raised(mappedValue.value, output)
             ELSE IF mappedValue.value # OmitProperty
             THEN Written(SetProp(output, key, mappedValue.value))
             ELSE Written(output)

\* mutant: the sentinel is written as undefined instead of leaving the key out
mapRuleWritesOmitAsUndefined(key, getterOrString, input, context, output) ==
    IF ~isMapperFunction(getterOrString)
    THEN Written(SetProp(output, key, GetProp(input, getterOrString.s)))
    ELSE LET mappedValue == Invoke(getterOrString, input, context)
         IN  IF mappedValue.threw THEN Raised(mappedValue.value, output)
             ELSE IF mappedValue.value # OmitProperty
             THEN Written(SetProp(output, key, mappedValue.value))
             ELSE Written(SetProp(output, key, Undefined))

\* mutant: null and undefined are left out like the sentinel
mapRuleSkipsNullish(key, getterOrString, input, context, output) ==
    IF ~isMapperFunction(getterOrString)
    THEN Written(SetProp(output, key, GetProp(input, getterOrString.s)))
    ELSE LET mappedValue == Invoke(getterOrString, input, context)
         IN  IF mappedValue.threw THEN Raised(mappedValue.value, output)
             ELSE IF mappedValue.value # OmitProperty /\ ~IsNullish(mappedValue.value)
             THEN Written(SetProp(output, key, mappedValue.value))
             ELSE Written(output)

\* mutant: the error of a transform is caught and the field left out
mapRuleSuppressesError(key, getterOrString, input, context, output) ==
    IF ~isMapperFunction(getterOrString)
    THEN Written(SetProp(output, key, GetProp(input, getterOrString.s)))
    ELSE LET mappedValue == Invoke(getterOrString, input, context)
         IN  IF mappedValue.threw THEN Written(output)
             ELSE IF mappedValue.value # OmitProperty
             THEN Written(SetProp(output, key, mappedValue.value))
             ELSE Written(output)

\* mutant: what a transform returns is written without the comparison
mapRuleWritesTheSentinel(key, getterOrString, input, context, output) ==
    IF ~isMapperFunction(getterOrString)
    THEN Written(SetProp(output, key, GetProp(input, getterOrString.s)))
    ELSE LET mappedValue == Invoke(getterOrString, input, context)
         IN  IF mappedValue.threw THEN Raised(mappedValue.value, output)
             ELSE Written(SetProp(output, key, mappedValue.value))

\* the body of the loop of map: one rule of the schema
mapRule(key, getterOrString, input, context, output) ==
    IF ~isMapperFunction(getterOrString)
    THEN Written(SetProp(output, key, GetProp(input, getterOrString.s)))
    ELSE LET mappedValue == Invoke(getterOrString, input, context)
         IN  IF mappedValue.threw THEN Raised(mappedValue.value, output)
             ELSE IF mappedValue.value # OmitProperty
             THEN Written(SetProp(output, key, mappedValue.value))
             ELSE Written(output)

\* for (const [key, getterOrString] of this.schemaMap) { ... } return output
RECURSIVE mapLoop(_, _, _, _, _, _)
mapLoop(sm, i, input, context, output, l) ==
    IF i > Len(sm) THEN Returned(Obj(output), l)
    ELSE LET key == sm[i].k
             getterOrString == sm[i].v
             l2 == Append(l, Event(key, getterOrString, input, context))
             w == mapRule(key, getterOrString, input, context, output)
         IN  IF w.threw THEN Threw(w.value, l2)
             ELSE mapLoop(sm, i + 1, input, context, w.output, l2)

\* mutant: no check for an absent input
mapWithoutAbsentCheck(sm, input, context) ==
    mapLoop(sm, 1, input, context, <<>>, <<>>)

\* mutant: a run-time guard that refuses a call without a context
mapRequiresContext(sm, input, context) ==
    IF input = Null \/ input = Undefined THEN Returned(input, <<>>)
    ELSE IF context = Undefined THEN Threw(TypeError("MissingContextError"), <<>>)
    ELSE mapLoop(sm, 1, input, context, <<>>, <<>>)

\* mutant: the transforms are called without the context of the caller
mapPassesNoContext(sm, input, context) ==
    IF input = Null \/ input = Undefined THEN Returned(input, <<>>)
    ELSE mapLoop(sm, 1, input, Undefined, <<>>, <<>>)

\* ObjectMapper.map(input, context)
map(sm, input, context) ==
    IF input = Null \/ input = Undefined THEN Returned(input, <<>>)
    ELSE mapLoop(sm, 1, input, context, <<>>, <<>>)

\* input.map((item) => this.map(item, context))
RECURSIVE ArrayPrototypeMap(_, _, _, _, _, _)
ArrayPrototypeMap(sm, items, i, context, output, l) ==
    IF i > Len(items) THEN Returned(Arr(output), l)
    ELSE LET r == map(sm, items[i], context)
         IN  IF r.threw THEN Threw(r.value, l \o r.log)
             ELSE ArrayPrototypeMap(sm, items, i + 1, context,
                                    Append(output, r.value), l \o r.log)

\* for (const item of input) { output.push(this.map(item, context)) }
RECURSIVE forOf(_, _, _, _, _, _)
forOf(sm, items, i, context, output, l) ==
    IF i > Len(items) THEN Returned(Arr(output), l)
    ELSE LET r == map(sm, items[i], context)
         IN  IF r.threw THEN Threw(r.value, l \o r.log)
             ELSE forOf(sm, items, i + 1, context, Append(output, r.value), l \o r.log)

\* mutant: absent elements are dropped from the sequence
arrayDropsAbsent(sm, input, context) ==
    IF input = Undefined \/ input = Null THEN Returned(input, <<>>)
    ELSE ArrayPrototypeMap(sm, SelectSeq(input.items, LAMBDA x : ~IsNullish(x)),
                           1, context, <<>>, <<>>)

\* mutant: the iterator branch collects the outputs newest first
arrayIteratorNewestFirst(sm, input, context) ==
    IF input = Undefined \/ input = Null THEN Returned(input, <<>>)
    ELSE IF input.kind = "array"
    THEN ArrayPrototypeMap(sm, input.items, 1, context, <<>>, <<>>)
    ELSE forOf(sm, [i \in 1..Len(input.items) |-> input.items[Len(input.items) + 1 - i]],
               1, context, <<>>, <<>>)

\* ObjectMapper.array(input, context)
array(sm, input, context) ==
    IF input = Undefined \/ input = Null THEN Returned(input, <<>>)
    ELSE IF input.kind = "array"
    THEN ArrayPrototypeMap(sm, input.items, 1, context, <<>>, <<>>)
    ELSE forOf(sm, input.items, 1, context, <<>>, <<>>)

\* a reference to an object: two references are the same object exactly
\* when they are equal
Ref(name) == [kind |-> "ref", s |-> name]

\* an engine: the reference its schema property holds, and its rule map
Mapper(schemaRef, sm) == [kind |-> "mapper", schema |-> schemaRef, schemaMap |-> sm]

\* mutant: the schema attribute is a copy of the schema object
toFunctionCopiesSchema(this) ==
    [kind |-> "function", s |-> "objectMapperFunction", this |-> this,
     schema |-> Ref("copy")]

\* ObjectMapper.toFunction(): func = (value, context) => this.map(value, context);
\* func.schema = this.schema; return func
toFunction(this) ==
    [kind |-> "function", s |-> "objectMapperFunction", this |-> this,
     schema |-> this.schema]

----------------------------------------------------------------------------
(* AsyncObjectMapper: the asynchronous engine.  An async map call runs    *)
(* until it awaits the promise of a transform; the frame kept at the      *)
(* await is resumed when that promise settles.                            *)

\* the frame of an async map call: suspended at the await of rule i, or settled
Awaiting(input, context, i, output, pending, l) ==
    [state |-> "awaiting", input |-> input, context |-> context, i |-> i,
     output |-> output, pending |-> pending, value |-> Undefined, log |-> l]

Fulfilled(input, context, v, l) ==
    [state |-> "fulfilled", input |-> input, context |-> context, i |-> 0,
     output |-> <<>>, pending |-> Normal(Undefined), value |-> v, log |-> l]

Rejected(input, context, e, l) ==
    [state |-> "rejected", input |-> input, context |-> context, i |-> 0,
     output |-> <<>>, pending |-> Normal(Undefined), value |-> e, log |-> l]

\* typeof value === "function"
isAsyncMapperFunction(value) == value.kind = "function"

\* a promise, with the completion it settles with: fulfilled with a value
\* or rejected with an error
Promise(c) == [kind |-> "promise", settles |-> c]

\* getterOrString(input, context) for the transforms of the async engine,
\* async (input, context) => ...: the call returns a promise that settles
\* as the body completes
AsyncInvoke(fn, input, context) == Normal(Promise(Invoke(fn, input, context)))

\* await v: the settlement of a promise, the value itself for any other value
Await(v) == IF v.kind = "promise" THEN v.settles ELSE Normal(v)

\* the loop of AsyncObjectMapper.map from rule i up to its next await
RECURSIVE asyncMapLoop(_, _, _, _, _, _)
asyncMapLoop(sm, i, input, context, output, l) ==
    IF i > Len(sm) THEN Fulfilled(input, context, Obj(output), l)
    ELSE LET key == sm[i].k
             getterOrString == sm[i].v
             l2 == Append(l, Event(key, getterOrString, input, context))
         IN  IF ~isAsyncMapperFunction(getterOrString)
             THEN asyncMapLoop(sm, i + 1, input, context,
                               SetProp(output, key, GetProp(input, getterOrString.s)), l2)
             ELSE Awaiting(input, context, i, output,
                           AsyncInvoke(getterOrString, input, context), l2)

\* mutant: the output starts as a copy of the input
asyncMapSpreadsInput(sm, input, context) ==
    IF input = Null \/ input = Undefined THEN Fulfilled(input, context, input, <<>>)
    ELSE asyncMapLoop(sm, 1, input, context, input.entries, <<>>)

\* mutant: every transform is called at the start of the call, their
\* promises are awaited in order afterwards
asyncMapCallsEveryTransformFirst(sm, input, context) ==
    IF input = Null \/ input = Undefined THEN Fulfilled(input, context, input, <<>>)
    ELSE LET f == asyncMapLoop(sm, 1, input, context, <<>>, <<>>)
         IN  IF f.state = "awaiting"
             THEN [f EXCEPT !.log =
                      [j \in 1..Len(sm) |-> Event(sm[j].k, sm[j].v, input, context)]]
             ELSE f

\* AsyncObjectMapper.map(input, context), up to its first await
asyncMap(sm, input, context) ==
    IF input = Null \/ input = Undefined THEN Fulfilled(input, context, input, <<>>)
    ELSE asyncMapLoop(sm, 1, input, context, <<>>, <<>>)

\* mutant: the value the transform returned is compared and written as it
\* is, without the await
asyncMapResumeWithoutAwait(sm, f) ==
    LET mappedValue == f.pending
    IN  IF mappedValue.threw THEN Rejected(f.input, f.context, mappedValue.value, f.log)
        ELSE IF mappedValue.value # OmitProperty
        THEN asyncMapLoop(sm, f.i + 1, f.input, f.context,
                          SetProp(f.output, sm[f.i].k, mappedValue.value), f.log)
        ELSE asyncMapLoop(sm, f.i + 1, f.input, f.context, f.output, f.log)

\* mutant: a value that arrives is put in front of the fields already there
asyncMapResumeWritesInFront(sm, f) ==
    LET mappedValue == Await(f.pending.value)
    IN  IF mappedValue.threw THEN Rejected(f.input, f.context, mappedValue.value, f.log)
        ELSE IF mappedValue.value # OmitProperty
        THEN asyncMapLoop(sm, f.i + 1, f.input, f.context,
                          <<[k |-> sm[f.i].k, v |-> mappedValue.value]>> \o f.output, f.log)
        ELSE asyncMapLoop(sm, f.i + 1, f.input, f.context, f.output, f.log)

\* mutant: a rejection ends the call with the fields filled so far
asyncMapResumeResolvesPartial(sm, f) ==
    LET mappedValue == Await(f.pending.value)
    IN  IF mappedValue.threw THEN Fulfilled(f.input, f.context, Obj(f.output), f.log)
        ELSE IF mappedValue.value # OmitProperty
        THEN asyncMapLoop(sm, f.i + 1, f.input, f.context,
                          SetProp(f.output, sm[f.i].k, mappedValue.value), f.log)
        ELSE asyncMapLoop(sm, f.i + 1, f.input, f.context, f.output, f.log)

\* const mappedValue = await getterOrString(input, context): the awaited
\* promise has settled and the call runs on to its next await
asyncMapResume(sm, f) ==
    LET mappedValue == Await(f.pending.value)
    IN  IF mappedValue.threw THEN Rejected(f.input, f.context, mappedValue.value, f.log)
        ELSE IF mappedValue.value # OmitProperty
        THEN asyncMapLoop(sm, f.i + 1, f.input, f.context,
                          SetProp(f.output, sm[f.i].k, mappedValue.value), f.log)
        ELSE asyncMapLoop(sm, f.i + 1, f.input, f.context, f.output, f.log)

----------------------------------------------------------------------------
(* The values the calls are made with *)

Keys == {"1", "a", "b"}

\* in2 is the field of the inputs that no rule refers to
Rules == {Str("in1"), Fn("toUpperCase"), Fn("inStringOverride"),
          Fn("omit"), Fn("null"), Fn("undefined")}

RuleEntries == [k : Keys, v : Rules]

\* the schema literals: up to MaxRules rules under distinct keys
Decls ==
    {d \in UNION {[1..n -> RuleEntries] : n \in 0..MaxRules} :
        \A i, j \in 1..Len(d) : i # j => d[i].k # d[j].k}

\* TOutput and TContext as the caller declares them: one output field and no
\* context, or two output fields and a context
TypeArgs == {[outputKeys |-> {"a"}, needsContext |-> FALSE],
             [outputKeys |-> {"a", "b"}, needsContext |-> TRUE]}

In1Values == {Null, Undefined, Str("x")}

InputObjects ==
    {Obj(<<>>), Obj(<<[k |-> "in2", v |-> Str("y")]>>)}
    \cup {Obj(<<[k |-> "in1", v |-> v]>>) : v \in In1Values}
    \cup {Obj(<<[k |-> "in1", v |-> v], [k |-> "in2", v |-> Str("y")]>>) : v \in In1Values}

Inputs == {Null, Undefined} \cup InputObjects

Items == {Undefined, Obj(<<[k |-> "in1", v |-> Str("x")]>>),
          Obj(<<[k |-> "in1", v |-> Null], [k |-> "in2", v |-> Str("y")]>>)}

ItemSeqs == UNION {[1..n -> Items] : n \in 0..MaxItems}

Sequences == {Null, Undefined} \cup {Arr(s) : s \in ItemSeqs} \cup {Iter(s) : s \in ItemSeqs}

\* no context supplied reads as undefined in the callee
Contexts == {Undefined, Obj(<<[k |-> "inStringOverride", v |-> Str("o")]>>)}

NoCall == [op |-> "none", input |-> Undefined, context |-> Undefined, again |-> FALSE]

NoResult == [status |-> "none", value |-> Undefined]

Completion(r) == [status |-> IF r.threw THEN "threw" ELSE "returned", value |-> r.value]

----------------------------------------------------------------------------
(* The state machine *)

Init ==
    /\ engine = "none"
    /\ decl = <<>>
    /\ types = [outputKeys |-> {}, needsContext |-> FALSE]
    /\ schema = Obj(<<>>)
    /\ schemaMap = <<>>
    /\ call = NoCall
    /\ result = NoResult
    /\ log = <<>>
    /\ tasks = <<>>
    /\ heap = <<>>

\* the caller is between two calls: nothing returned or thrown is held
Idle == call = NoCall /\ result = NoResult /\ tasks = <<>>

Reverse(s) == [i \in 1..Len(s) |-> s[Len(s) + 1 - i]]

\* mutant: the Map is filled from the last rule to the first
constructorReversed(s) == Reverse(NewMap(ObjectEntries(s)))

\* protected constructor(public readonly schema) { this.schemaMap = new Map(Object.entries(schema)) }
constructor(s) == NewMap(ObjectEntries(s))

\* mutant: a run-time check of the rules against the declared output fields
createChecksShape(t, s) ==
    IF KeySet(s.entries) = t.outputKeys THEN Normal(constructor(s))
    ELSE Throw(TypeError("SchemaShapeError"))

\* ObjectMapper.create<TInput, TOutput, TContext>()(schema): the type
\* arguments t are erased, the call is new ObjectMapper(schema)
create(t, s) == Normal(constructor(s))

\* const objectMapper = ObjectMapper.create<...>()({ ... })
Create(d, t) ==
    /\ engine = "none"
    /\ LET s == Obj(ObjectLiteral(d))
           c == create(t, s)
       IN  IF c.threw
           THEN /\ result' = Completion(c)
                /\ UNCHANGED <<engine, decl, types, schema, schemaMap>>
           ELSE /\ engine' = "sync"
                /\ decl' = d
                /\ types' = t
                /\ schema' = s
                /\ schemaMap' = c.value
                /\ UNCHANGED result
    /\ UNCHANGED <<call, log, tasks, heap>>

\* objectMapper.map(input, context)
CallMap(input, context) ==
    /\ engine = "sync"
    /\ Idle
    /\ LET r == map(schemaMap, input, context)
       IN  /\ call' = [op |-> "map", input |-> input, context |-> context, again |-> FALSE]
           /\ result' = Completion(r)
           /\ log' = r.log
    /\ UNCHANGED <<engine, decl, types, schema, schemaMap, tasks, heap>>

\* objectMapper.array(input, context)
CallArray(input, context) ==
    /\ engine = "sync"
    /\ Idle
    /\ LET r == array(schemaMap, input, context)
       IN  /\ call' = [op |-> "array", input |-> input, context |-> context, again |-> FALSE]
           /\ result' = Completion(r)
           /\ log' = r.log
    /\ UNCHANGED <<engine, decl, types, schema, schemaMap, tasks, heap>>

\* a call made without a context has thrown; the caller makes it again on
\* the same engine, with a context:
\*   expect(() => objectMapper.map(input)).toThrow(TypeError);
\*   const output = objectMapper.map(input, context);
CallAgain(context) ==
    /\ engine = "sync"
    /\ result.status = "threw"
    /\ call.context = Undefined
    /\ ~call.again
    /\ context # Undefined
    /\ LET r == IF call.op = "map" THEN map(schemaMap, call.input, context)
                ELSE array(schemaMap, call.input, context)
       IN  /\ call' = [call EXCEPT !.context = context, !.again = TRUE]
           /\ result' = Completion(r)
           /\ log' = r.log
    /\ UNCHANGED <<engine, decl, types, schema, schemaMap, tasks, heap>>

\* AsyncObjectMapper.toFunction(): func = (value, context) => this.map(value, context);
\* func.schema = this.schema; return func
asyncToFunction(this) ==
    [kind |-> "function", s |-> "objectMapperFunction", this |-> this,
     schema |-> this.schema]

\* protected constructor of AsyncObjectMapper
asyncConstructor(s) == NewMap(ObjectEntries(s))

\* AsyncObjectMapper.create<TInput, TOutput, TContext>()(schema)
asyncCreate(t, s) == Normal(asyncConstructor(s))

\* const objectMapper = AsyncObjectMapper.create<...>()({ ... })
AsyncCreate(d, t) ==
    /\ engine = "none"
    /\ LET s == Obj(ObjectLiteral(d))
           c == asyncCreate(t, s)
       IN  IF c.threw
           THEN /\ result' = Completion(c)
                /\ UNCHANGED <<engine, decl, types, schema, schemaMap>>
           ELSE /\ engine' = "async"
                /\ decl' = d
                /\ types' = t
                /\ schema' = s
                /\ schemaMap' = c.value
                /\ UNCHANGED result
    /\ UNCHANGED <<call, log, tasks, heap>>

\* asyncObjectMapper.map(input, context): runs to its first await
AsyncCallMap(limit, input, context) ==
    /\ engine = "async"
    /\ Len(tasks) < limit
    /\ tasks' = Append(tasks, asyncMap(schemaMap, input, context))
    /\ UNCHANGED <<engine, decl, types, schema, schemaMap, call, result, log, heap>>

\* the promise a map call awaits settles and the call runs on
Settle(n) ==
    /\ tasks[n].state = "awaiting"
    /\ tasks' = [tasks EXCEPT ![n] = asyncMapResume(schemaMap, tasks[n])]
    /\ UNCHANGED <<engine, decl, types, schema, schemaMap, call, result, log, heap>>

\* a call made without a context has rejected; the caller makes it again
\* on the same engine, with a context:
\*   expect(objectMapper.map(input)).rejects.toThrow(TypeError);
\*   const output = await objectMapper.map(input, context);
AsyncCallAgain(context) ==
    /\ engine = "async"
    /\ Len(tasks) = 1
    /\ tasks[1].state = "rejected"
    /\ tasks[1].context = Undefined
    /\ context # Undefined
    /\ tasks' = Append(tasks, asyncMap(schemaMap, tasks[1].input, context))
    /\ UNCHANGED <<engine, decl, types, schema, schemaMap, call, result, log, heap>>

\* the caller is done with what the calls gave it
Discard ==
    /\ engine # "none"
    /\ ~Idle
    /\ \A n \in 1..Len(tasks) : tasks[n].state # "awaiting"
    /\ call' = NoCall
    /\ result' = NoResult
    /\ log' = <<>>
    /\ tasks' = <<>>
    /\ heap' = <<>>
    /\ UNCHANGED <<engine, decl, types, schema, schemaMap>>

Next ==
    \/ engine = "none" /\ \E d \in Decls, t \in TypeArgs : Create(d, t)
    \/ engine = "none" /\ \E d \in Decls, t \in TypeArgs : AsyncCreate(d, t)
    \/ engine = "sync" /\ Idle /\ \E input \in Inputs, context \in Contexts :
                                      CallMap(input, context)
    \/ engine = "sync" /\ Idle /\ \E input \in Sequences, context \in Contexts :
                                      CallArray(input, context)
    \/ \E context \in Contexts : CallAgain(context)
    \/ engine = "async" /\ Idle /\ \E input \in Inputs, context \in Contexts :
                                       AsyncCallMap(1, input, context)
    \/ \E n \in 1..Len(tasks) : Settle(n)
    \/ \E context \in Contexts : AsyncCallAgain(context)
    \/ Discard

Spec == Init /\ [][Next]_vars

----------------------------------------------------------------------------
(* AsyncObjectMapper.array: the promise of the call (result) and the map   *)
(* calls it has started for the elements (tasks).                          *)

\* the promises of the element maps have all fulfilled: the array of their values
Values(ts) == Arr([n \in 1..Len(ts) |-> ts[n].value])

\* the state of an array call: the element maps started, and how its promise
\* has settled
ArrayState(ts, settled) == [tasks |-> ts, result |-> settled]

\* Promise.all(promises): fulfilled with the values in index order once every
\* promise has fulfilled
PromiseAll(ts) ==
    IF \A n \in 1..Len(ts) : ts[n].state = "fulfilled"
    THEN [status |-> "returned", value |-> Values(ts)]
    ELSE NoResult

\* for (const item of input) { output.push(await this.map(item, context)) }
\* from element i on, up to the await of a map that has not settled
RECURSIVE asyncForOf(_, _, _, _, _)
asyncForOf(sm, items, i, context, ts) ==
    IF i > Len(items)
    THEN ArrayState(ts, [status |-> "returned", value |-> Values(ts)])
    ELSE LET f == asyncMap(sm, items[i], context)
         IN  IF f.state = "fulfilled"
             THEN asyncForOf(sm, items, i + 1, context, Append(ts, f))
             ELSE ArrayState(Append(ts, f), NoResult)

\* mutant: an absent input gives an empty array
asyncArrayAbsentAsEmpty(sm, input, context) ==
    IF input = Undefined \/ input = Null
    THEN ArrayState(<<>>, [status |-> "returned", value |-> Arr(<<>>)])
    ELSE IF input.kind = "array"
    THEN LET ts == [i \in 1..Len(input.items) |-> asyncMap(sm, input.items[i], context)]
         IN  ArrayState(ts, PromiseAll(ts))
    ELSE asyncForOf(sm, input.items, 1, context, <<>>)

\* mutant: the elements of an array are mapped one after the other
asyncArraySequential(sm, input, context) ==
    IF input = Undefined \/ input = Null
    THEN ArrayState(<<>>, [status |-> "returned", value |-> input])
    ELSE asyncForOf(sm, input.items, 1, context, <<>>)

\* mutant: the elements of an iterable are pulled and their maps started
\* together, as for an array
asyncArrayPullsEveryElementFirst(sm, input, context) ==
    IF input = Undefined \/ input = Null
    THEN ArrayState(<<>>, [status |-> "returned", value |-> input])
    ELSE LET ts == [i \in 1..Len(input.items) |-> asyncMap(sm, input.items[i], context)]
         IN  ArrayState(ts, PromiseAll(ts))

\* AsyncObjectMapper.array(input, context), up to its first suspension
asyncArray(sm, input, context) ==
    IF input = Undefined \/ input = Null
    THEN ArrayState(<<>>, [status |-> "returned", value |-> input])
    ELSE IF input.kind = "array"
    THEN LET ts == [i \in 1..Len(input.items) |-> asyncMap(sm, input.items[i], context)]
         IN  ArrayState(ts, PromiseAll(ts))
    ELSE asyncForOf(sm, input.items, 1, context, <<>>)

\* mutant: a later rejection replaces the error the call has rejected with
asyncArrayResumeLastRejectionWins(sm, input, context, ts, settled, n) ==
    LET f == asyncMapResume(sm, ts[n])
        ts2 == [ts EXCEPT ![n] = f]
    IN  IF input.kind = "array"
        THEN ArrayState(ts2,
                 IF f.state = "rejected" THEN [status |-> "threw", value |-> f.value]
                 ELSE IF settled # NoResult THEN settled
                 ELSE PromiseAll(ts2))
        ELSE IF f.state = "rejected"
        THEN ArrayState(ts2, [status |-> "threw", value |-> f.value])
        ELSE IF f.state = "fulfilled"
        THEN asyncForOf(sm, input.items, n + 1, context, ts2)
        ELSE ArrayState(ts2, settled)

\* the map of element n runs on from its await.  Array input: Promise.all
\* rejects with the first rejection and fulfils when the last promise has
\* fulfilled, and is settled once.  Iterable input: the loop of array resumes
\* with the value, or the rejection leaves it.
asyncArrayResume(sm, input, context, ts, settled, n) ==
    LET f == asyncMapResume(sm, ts[n])
        ts2 == [ts EXCEPT ![n] = f]
    IN  IF input.kind = "array"
        THEN ArrayState(ts2,
                 IF settled # NoResult THEN settled
                 ELSE IF f.state = "rejected" THEN [status |-> "threw", value |-> f.value]
                 ELSE PromiseAll(ts2))
        ELSE IF f.state = "rejected"
        THEN ArrayState(ts2, [status |-> "threw", value |-> f.value])
        ELSE IF f.state = "fulfilled"
        THEN asyncForOf(sm, input.items, n + 1, context, ts2)
        ELSE ArrayState(ts2, settled)

\* asyncObjectMapper.array(input, context)
AsyncCallArray(input, context) ==
    /\ engine = "async"
    /\ Idle
    /\ LET a == asyncArray(schemaMap, input, context)
       IN  /\ call' = [op |-> "array", input |-> input, context |-> context, again |-> FALSE]
           /\ tasks' = a.tasks
           /\ result' = a.result
    /\ UNCHANGED <<engine, decl, types, schema, schemaMap, log, heap>>

\* the promise the map of element n awaits settles
SettleItem(n) ==
    /\ engine = "async"
    /\ call.op = "array"
    /\ tasks[n].state = "awaiting"
    /\ LET a == asyncArrayResume(schemaMap, call.input, call.context, tasks, result, n)
       IN  /\ tasks' = a.tasks
           /\ result' = a.result
    /\ UNCHANGED <<engine, decl, types, schema, schemaMap, call, log, heap>>

\* the rules of the schemas the array calls are made on
ArrayRules == {Str("in1"), Fn("toUpperCase"), Fn("inStringOverride"), Fn("omit")}

ArrayDecls ==
    {d \in Decls : \A i \in 1..Len(d) : d[i].k \in {"a", "b"} /\ d[i].v \in ArrayRules}

ArrayTypeArgs == [outputKeys |-> {"a", "b"}, needsContext |-> TRUE]

NextArray ==
    \/ engine = "none" /\ \E d \in ArrayDecls : Create(d, ArrayTypeArgs)
    \/ engine = "none" /\ \E d \in ArrayDecls : AsyncCreate(d, ArrayTypeArgs)
    \/ engine = "sync" /\ Idle /\ \E input \in Sequences, context \in Contexts :
                                      CallArray(input, context)
    \/ engine = "async" /\ Idle /\ \E input \in Sequences, context \in Contexts :
                                       AsyncCallArray(input, context)
    \/ engine = "async" /\ Idle /\ \E input \in {Null, Undefined}, context \in Contexts :
                                       AsyncCallMap(1, input, context)
    \/ \E n \in 1..Len(tasks) : SettleItem(n)
    \/ Discard

SpecArray == Init /\ [][NextArray]_vars

----------------------------------------------------------------------------
(* Composition: the engine wrapped as a callable, a callable of another    *)
(* engine as a rule, and a second engine built from the rules of the first *)

\* this: the engine of the state, its schema property referring to the
\* object the variable schema holds
This == Mapper(Ref("schema"), schemaMap)

\* const nestedObjectMapper = new ObjectMapper<NestedInput, NestedOutput>({ ... })
nestedObjectMapper ==
    Mapper(Ref("nestedSchema"),
           constructor(Obj(ObjectLiteral(<<[k |-> "a", v |-> Str("in1")],
                                           [k |-> "b", v |-> Fn("inStringOverride")]>>))))

\* nestedObjectMapper.toFunction(), placed as a rule of the outer schema
nestedFunction == toFunction(nestedObjectMapper)

ComposeRules == {Str("in1"), Fn("toUpperCase"), Fn("omit"), nestedFunction}

ComposeDecls ==
    {d \in UNION {[1..n -> [k : {"a", "b"}, v : ComposeRules]] : n \in 0..2} :
        \A i, j \in 1..Len(d) : i # j => d[i].k # d[j].k}

ComposeInputs ==
    {Null, Undefined, Obj(<<>>), Obj(<<[k |-> "in1", v |-> Str("x")]>>),
     Obj(<<[k |-> "in1", v |-> Null], [k |-> "in2", v |-> Str("y")]>>)}

\* the test helper omit(obj, keys): the entries of obj whose key is not in keys
omitKeys(obj, keys) ==
    Obj(ObjectLiteral(SelectSeq(ObjectEntries(obj), LAMBDA e : e.k \notin keys)))

\* mutant: the renamed rule is the first rule of the schema, whatever its name
schemaV2TakesFirstRule(s, omitted, renamed, extra) ==
    Obj(ObjectLiteral(
        ObjectEntries(omitKeys(s, omitted))
        \o [i \in 1..Len(renamed) |-> [k |-> "c", v |-> s.entries[1].v]]
        \o [i \in 1..Len(extra) |-> [k |-> "d", v |-> extra[i]]]))

\* { ...omit(objectMapperV1.schema, omitted), c: objectMapperV1.schema[from], d: extra }
schemaV2(s, omitted, renamed, extra) ==
    Obj(ObjectLiteral(
        ObjectEntries(omitKeys(s, omitted))
        \o [i \in 1..Len(renamed) |-> [k |-> "c", v |-> GetProp(s, renamed[i])]]
        \o [i \in 1..Len(extra) |-> [k |-> "d", v |-> extra[i]]]))

\* const objectMapperFunction = objectMapperInstance.toFunction()
ToFunction ==
    /\ engine # "none"
    /\ Idle
    /\ call' = [op |-> "toFunction", input |-> Undefined, context |-> Undefined,
                again |-> FALSE]
    /\ result' = [status |-> "returned",
                  value |-> IF engine = "sync" THEN toFunction(This)
                            ELSE asyncToFunction(This)]
    /\ UNCHANGED <<engine, decl, types, schema, schemaMap, log, tasks, heap>>

\* objectMapperFunction(input, context)
CallFunction(input, context) ==
    /\ engine = "sync"
    /\ call.op = "toFunction"
    /\ LET r == Invoke(result.value, input, context)
       IN  /\ call' = [op |-> "function", input |-> input, context |-> context,
                       again |-> FALSE, mapper |-> result.value.this]
           /\ result' = Completion(r)
           /\ log' = r.log
    /\ UNCHANGED <<engine, decl, types, schema, schemaMap, tasks, heap>>

\* asyncObjectMapperFunction(input, context): the promise of this.map
AsyncCallFunction(input, context) ==
    /\ engine = "async"
    /\ call.op = "toFunction"
    /\ call' = [op |-> "function", input |-> input, context |-> context,
                again |-> FALSE, mapper |-> result.value.this]
    /\ tasks' = <<asyncMap(result.value.this.schemaMap, input, context)>>
    /\ result' = NoResult
    /\ UNCHANGED <<engine, decl, types, schema, schemaMap, log, heap>>

\* const objectMapperV2 = new ObjectMapper({ ...omit(objectMapperV1.schema, omitted),
\*                                           c: objectMapperV1.schema[from], d: extra })
Reuse(omitted, renamed, extra) ==
    /\ engine # "none"
    /\ Idle
    /\ omitted \subseteq KeySet(schema.entries)
    /\ \A i \in 1..Len(renamed) : renamed[i] \in KeySet(schema.entries)
    /\ LET s == schemaV2(schema, omitted, renamed, extra)
           sm == IF engine = "sync" THEN constructor(s) ELSE asyncConstructor(s)
       IN  /\ call' = [op |-> "reuse", input |-> Undefined, context |-> Undefined,
                       again |-> FALSE,
                       reused |-> {[from |-> k, to |-> k] : k \in KeySet(schema.entries) \ omitted}
                                  \cup {[from |-> renamed[i], to |-> "c"] : i \in 1..Len(renamed)}]
           /\ result' = [status |-> "returned", value |-> Mapper(Ref("schemaV2"), sm)]
    /\ UNCHANGED <<engine, decl, types, schema, schemaMap, log, tasks, heap>>

\* objectMapperV2.map(input, context)
CallMapV2(input, context) ==
    /\ engine = "sync"
    /\ call.op = "reuse"
    /\ LET r == map(result.value.schemaMap, input, context)
       IN  /\ call' = [op |-> "mapV2", input |-> input, context |-> context,
                       again |-> FALSE, reused |-> call.reused, mapper |-> result.value]
           /\ result' = Completion(r)
           /\ log' = r.log
    /\ UNCHANGED <<engine, decl, types, schema, schemaMap, tasks, heap>>

\* asyncObjectMapperV2.map(input, context)
AsyncCallMapV2(input, context) ==
    /\ engine = "async"
    /\ call.op = "reuse"
    /\ call' = [op |-> "mapV2", input |-> input, context |-> context,
                again |-> FALSE, reused |-> call.reused, mapper |-> result.value]
    /\ tasks' = <<asyncMap(result.value.schemaMap, input, context)>>
    /\ result' = NoResult
    /\ UNCHANGED <<engine, decl, types, schema, schemaMap, log, heap>>

\* the promise the map call of the callable or of the second engine awaits settles
SettleCallee(n) ==
    /\ call.op \in {"function", "mapV2"}
    /\ tasks[n].state = "awaiting"
    /\ tasks' = [tasks EXCEPT ![n] = asyncMapResume(call.mapper.schemaMap, tasks[n])]
    /\ UNCHANGED <<engine, decl, types, schema, schemaMap, call, result, log, heap>>

NextCompose ==
    \/ engine = "none" /\ \E d \in ComposeDecls : Create(d, ArrayTypeArgs)
    \/ engine = "none" /\ \E d \in ComposeDecls : AsyncCreate(d, ArrayTypeArgs)
    \/ ToFunction
    \/ \E input \in ComposeInputs, context \in Contexts : CallFunction(input, context)
    \/ \E input \in ComposeInputs, context \in Contexts : AsyncCallFunction(input, context)
    \/ engine # "none" /\ Idle /\
          \E omitted \in SUBSET {"a", "b"}, renamed \in {<<>>, <<"a">>, <<"b">>},
             extra \in {<<>>} \cup {<<r>> : r \in ComposeRules} :
                Reuse(omitted, renamed, extra)
    \/ \E input \in ComposeInputs, context \in Contexts : CallMapV2(input, context)
    \/ \E input \in ComposeInputs, context \in Contexts : AsyncCallMapV2(input, context)
    \/ \E n \in 1..Len(tasks) : SettleCallee(n)
    \/ Discard

SpecCompose == Init /\ [][NextCompose]_vars

----------------------------------------------------------------------------
(* The calls over the objects of the caller. The input, the context and    *)
(* the schema object are held by reference: they are at positions 1, 2 and *)
(* 3 of the heap, and what a call creates is put behind them.              *)

\* a reference to the object at a position of the heap
At(n) == [kind |-> "reference", at |-> n]

AtReturned(v, h) == [threw |-> FALSE, value |-> v, heap |-> h]

AtThrew(e, h) == [threw |-> TRUE, value |-> e, heap |-> h]

\* for (const [key, getterOrString] of this.schemaMap) { ... output[key] = ... }
\* return output
RECURSIVE mapAtLoop(_, _, _, _, _, _)
mapAtLoop(h, sm, i, input, context, output) ==
    IF i > Len(sm) THEN AtReturned(At(output), h)
    ELSE LET w == mapRule(sm[i].k, sm[i].v, h[input], h[context], h[output].entries)
         IN  IF w.threw THEN AtThrew(w.value, h)
             ELSE mapAtLoop([h EXCEPT ![output] = Obj(w.output)], sm, i + 1,
                            input, context, output)

\* mutant: the rules are written on the input object, which is returned
mapAtWritesOnInput(h, sm, input, context) ==
    IF h[input] = Null \/ h[input] = Undefined THEN AtReturned(h[input], h)
    ELSE mapAtLoop(h, sm, 1, input, context, input)

\* ObjectMapper.map(input, context): const output: Partial<TOutput> = {} is a
\* new object, the writes of the loop go to it
mapAt(h, sm, input, context) ==
    IF h[input] = Null \/ h[input] = Undefined THEN AtReturned(h[input], h)
    ELSE mapAtLoop(Append(h, Obj(<<>>)), sm, 1, input, context, Len(h) + 1)

\* output.push(this.map(item, context)) for each item, in order
RECURSIVE pushAtLoop(_, _, _, _, _, _)
pushAtLoop(h, sm, i, input, context, output) ==
    IF i > Len(h[input].items) THEN AtReturned(At(output), h)
    ELSE LET r == map(sm, h[input].items[i], h[context])
         IN  IF r.threw THEN AtThrew(r.value, h)
             ELSE pushAtLoop([h EXCEPT ![output] = Arr(Append(h[output].items, r.value))],
                             sm, i + 1, input, context, output)

\* ObjectMapper.array(input, context): input.map(...) returns a new array,
\* const output = [] of the iterator branch is a new array
arrayAt(h, sm, input, context) ==
    IF h[input] = Undefined \/ h[input] = Null THEN AtReturned(h[input], h)
    ELSE pushAtLoop(Append(h, Arr(<<>>)), sm, 1, input, context, Len(h) + 1)

\* ObjectMapper.toFunction(): func is a new function object, func.schema is
\* written on it
toFunctionAt(h, this) == AtReturned(At(Len(h) + 1), Append(h, toFunction(this)))

\* a call of the sync engine on objects the caller holds
CallAt(op, input, context) ==
    /\ engine = "sync"
    /\ Idle
    /\ LET h == <<input, context, schema>>
           r == CASE op = "map" -> mapAt(h, schemaMap, 1, 2)
                  [] op = "array" -> arrayAt(h, schemaMap, 1, 2)
                  [] op = "toFunction" -> toFunctionAt(h, This)
       IN  /\ call' = [op |-> op, input |-> input, context |-> context, again |-> FALSE]
           /\ result' = Completion(r)
           /\ heap' = r.heap
    /\ UNCHANGED <<engine, decl, types, schema, schemaMap, log, tasks>>

NextAt ==
    \/ engine = "none" /\ \E d \in ArrayDecls : Create(d, ArrayTypeArgs)
    \/ engine = "none" /\ \E d \in ArrayDecls : AsyncCreate(d, ArrayTypeArgs)
    \/ engine = "sync" /\ Idle /\ \E input \in Inputs, context \in Contexts :
                                      CallAt("map", input, context)
    \/ engine = "sync" /\ Idle /\ \E input \in Sequences, context \in Contexts :
                                      CallAt("array", input, context)
    \/ engine = "sync" /\ Idle /\ CallAt("toFunction", Undefined, Undefined)
    \/ engine = "async" /\ Idle /\ \E input \in Inputs, context \in Contexts :
                                       AsyncCallMap(1, input, context)
    \/ \E n \in 1..Len(tasks) : Settle(n)
    \/ Discard

SpecAt == Init /\ [][NextAt]_vars

----------------------------------------------------------------------------
(* Async map calls in flight at the same time, on the engine and on a      *)
(* second engine that wraps the same schema object. The heap holds, for    *)
(* each call, the engine it was made on.                                   *)

\* the engine, and new AsyncObjectMapper(objectMapper.schema)
Engines ==
    {[of |-> 1, this |-> This],
     [of |-> 2, this |-> Mapper(Ref("schema"), asyncConstructor(schema))]}

\* e.this.map(input, context): runs to its first await
AsyncCallOn(limit, e, input, context) ==
    /\ engine = "async"
    /\ Len(tasks) < limit
    /\ tasks' = Append(tasks, asyncMap(e.this.schemaMap, input, context))
    /\ heap' = Append(heap, e)
    /\ UNCHANGED <<engine, decl, types, schema, schemaMap, call, result, log>>

\* mutant: the output object is a property of the engine, the calls in
\* flight on one engine write on the one of the oldest of them
resumeOnTheOutputOfTheEngine(ts, engines, n) ==
    LET m == CHOOSE m \in 1..n :
                 /\ engines[m].of = engines[n].of
                 /\ ts[m].state = "awaiting"
                 /\ \A k \in 1..(m - 1) :
                        engines[k].of # engines[n].of \/ ts[k].state # "awaiting"
    IN  [ts EXCEPT ![n] = asyncMapResume(engines[n].this.schemaMap,
                                         [ts[n] EXCEPT !.output = ts[m].output])]

\* call n runs on from its await, with the locals of its own frame and the
\* rule map of its engine; the frames of the other calls are not touched
resume(ts, engines, n) ==
    [ts EXCEPT ![n] = asyncMapResume(engines[n].this.schemaMap, ts[n])]

\* the promise call n awaits settles
SettleOn(n) ==
    /\ tasks[n].state = "awaiting"
    /\ tasks' = resume(tasks, heap, n)
    /\ UNCHANGED <<engine, decl, types, schema, schemaMap, call, result, log, heap>>

NextConcurrent ==
    \/ engine = "none" /\ \E d \in ArrayDecls : AsyncCreate(d, ArrayTypeArgs)
    \/ engine = "async" /\ Len(tasks) < 2
           /\ \E e \in Engines, input \in Items, context \in Contexts :
                  AsyncCallOn(2, e, input, context)
    \/ \E n \in 1..Len(tasks) : SettleOn(n)
    \/ Discard

SpecConcurrent == Init /\ [][NextConcurrent]_vars

----------------------------------------------------------------------------
(* Schemas made of the convenience transforms of mapFrom and of the rules  *)
(* of mapFrom.pick.                                                        *)

\* the longest argument list of pick
MaxPick == 3

\* the fields of the inputs that pick is called with
PickKeys == {"1", "in1", "in2"}

\* pick('in1'), pick('in1', 'in2'), pick('in2', '1', 'in2'), ...
PickArgs == UNION {[1..n -> PickKeys] : n \in 0..MaxPick}

MapFromRules == {Str("in1"), mapFromConstant(Str("Hello")), Fn("omit"),
                 Fn("null"), Fn("undefined")}

\* { a: mapFrom.constant('Hello'), b: mapFrom.omit }, { ...mapFrom.pick('in1', 'in2') }
MapFromDecls ==
    {d \in UNION {[1..n -> [k : {"a", "b"}, v : MapFromRules]] : n \in 0..MaxRules} :
        \A i, j \in 1..Len(d) : i # j => d[i].k # d[j].k}
    \cup {ObjectEntries(pick(keys)) : keys \in PickArgs}

\* an input may hold any value in a field, the exported symbol too
MapFromInputs ==
    {Undefined,
     Obj(<<[k |-> "in1", v |-> Null]>>),
     Obj(<<[k |-> "in1", v |-> OmitProperty]>>),
     Obj(<<[k |-> "in1", v |-> Str("x")], [k |-> "in2", v |-> Str("y")]>>),
     Obj(<<[k |-> "1", v |-> Str("y")], [k |-> "in1", v |-> Str("x")]>>)}

MapFromSequences == {Arr(<<x, y>>) : x, y \in MapFromInputs}

NextMapFrom ==
    \/ engine = "none" /\ \E d \in MapFromDecls :
           Create(d, [outputKeys |-> KeySet(d), needsContext |-> FALSE])
    \/ engine = "none" /\ \E d \in MapFromDecls :
           AsyncCreate(d, [outputKeys |-> KeySet(d), needsContext |-> FALSE])
    \/ engine = "sync" /\ Idle /\ \E input \in MapFromInputs, context \in Contexts :
                                      CallMap(input, context)
    \/ engine = "sync" /\ Idle /\ \E input \in MapFromSequences, context \in Contexts :
                                      CallArray(input, context)
    \/ engine = "async" /\ Idle /\ \E input \in MapFromInputs, context \in Contexts :
                                       AsyncCallMap(1, input, context)
    \/ \E n \in 1..Len(tasks) : Settle(n)
    \/ Discard

SpecMapFrom == Init /\ [][NextMapFrom]_vars

----------------------------------------------------------------------------
(* A transform of the outer engine that builds a nested input and calls a  *)
(* second engine with a sub-context of its own.                            *)

\* { capitalize: true }: the context the rule hands to the nested engine
SubContext == Obj(<<[k |-> "inStringOverride", v |-> Str("s")]>>)

\* the rule, closed over the nested engine and the sub-context
Nested(name) ==
    [kind |-> "function", s |-> name, mapper |-> nestedObjectMapper,
     subContext |-> SubContext]

NestedRules == {Str("in1"), Fn("inStringOverride"),
                Nested("nestedMap"), Nested("nestedNullable"), Nested("nestedArray")}

NestedDecls ==
    {d \in UNION {[1..n -> [k : {"a", "b"}, v : NestedRules]] : n \in 0..MaxRules} :
        \A i, j \in 1..Len(d) : i # j => d[i].k # d[j].k}

\* the outer inputs: a string field, a nested object that may be absent and
\* a list of nested objects that may be absent
NestedInputs ==
    {Obj(<<[k |-> "in1", v |-> Str("x")]>>)}
    \cup {Obj(<<[k |-> "in1", v |-> Str("x")], [k |-> "nested", v |-> n], [k |-> "list", v |-> l]>>) :
            n \in {Null, Undefined, Obj(<<[k |-> "in1", v |-> Str("y")]>>)},
            l \in {Null, Arr(<<Obj(<<[k |-> "in1", v |-> Str("y")]>>), Undefined>>)}}

NextNested ==
    \/ engine = "none" /\ \E d \in NestedDecls : Create(d, ArrayTypeArgs)
    \/ engine = "none" /\ \E d \in NestedDecls : AsyncCreate(d, ArrayTypeArgs)
    \/ engine = "sync" /\ Idle /\ \E input \in NestedInputs, context \in Contexts :
                                      CallMap(input, context)
    \/ engine = "async" /\ Idle /\ \E input \in NestedInputs, context \in Contexts :
                                       AsyncCallMap(1, input, context)
    \/ \E n \in 1..Len(tasks) : Settle(n)
    \/ Discard

SpecNested == Init /\ [][NextNested]_vars

----------------------------------------------------------------------------
(* The caller changes the schema object after the engine was built on it,  *)
(* before a call or while an async call is at an await.                    *)

\* delete object[key]
DeleteProp(entries, k) == SelectSeq(entries, LAMBDA e : e.k # k)

\* schema[key] = rule: a rule is added, or put in the place of another
ChangeRule(k, v) ==
    /\ engine # "none"
    /\ call.op # "map"
    /\ GetProp(schema, k) # v
    /\ schema' = Obj(SetProp(schema.entries, k, v))
    /\ UNCHANGED <<engine, decl, types, schemaMap, call, result, log, tasks, heap>>

\* delete schema[key]
RemoveRule(k) ==
    /\ engine # "none"
    /\ call.op # "map"
    /\ HasOwn(schema.entries, k)
    /\ schema' = Obj(DeleteProp(schema.entries, k))
    /\ UNCHANGED <<engine, decl, types, schemaMap, call, result, log, tasks, heap>>

\* mutant: the rules are read from the schema object at each call,
\* for (const [key, getterOrString] of Object.entries(this.schema))
rulesFromTheSchemaObject(this, s) == ObjectEntries(s)

\* the rules a call iterates, for (const [key, getterOrString] of
\* this.schemaMap): the map built by the constructor; s is the object
\* this.schema refers to, as it is at the call
rulesOf(this, s) == this.schemaMap

\* objectMapper.map(input, context), after the changes of the caller
CallMapOfThis(input, context) ==
    /\ engine = "sync"
    /\ Idle
    /\ LET r == map(rulesOf(This, schema), input, context)
       IN  /\ call' = [op |-> "map", input |-> input, context |-> context, again |-> FALSE]
           /\ result' = Completion(r)
           /\ log' = r.log
    /\ UNCHANGED <<engine, decl, types, schema, schemaMap, tasks, heap>>

\* asyncObjectMapper.map(input, context), after the changes of the caller
AsyncCallMapOfThis(input, context) ==
    /\ engine = "async"
    /\ Idle
    /\ tasks' = <<asyncMap(rulesOf(This, schema), input, context)>>
    /\ UNCHANGED <<engine, decl, types, schema, schemaMap, call, result, log, heap>>

\* the promise the map call awaits settles and the call runs on
SettleOfThis(n) ==
    /\ tasks[n].state = "awaiting"
    /\ tasks' = [tasks EXCEPT ![n] = asyncMapResume(rulesOf(This, schema), tasks[n])]
    /\ UNCHANGED <<engine, decl, types, schema, schemaMap, call, result, log, heap>>

NextSchema ==
    \/ engine = "none" /\ \E d \in ArrayDecls : Create(d, ArrayTypeArgs)
    \/ engine = "none" /\ \E d \in ArrayDecls : AsyncCreate(d, ArrayTypeArgs)
    \/ \E k \in {"a", "b"}, v \in {Str("in1"), Fn("omit")} : ChangeRule(k, v)
    \/ \E k \in {"a", "b"} : RemoveRule(k)
    \/ engine = "sync" /\ Idle /\ \E input \in Items, context \in Contexts :
                                      CallMapOfThis(input, context)
    \/ engine = "async" /\ Idle /\ \E input \in Items, context \in Contexts :
                                       AsyncCallMapOfThis(input, context)
    \/ \E n \in 1..Len(tasks) : SettleOfThis(n)
    \/ ToFunction
    \/ Discard

SpecSchema == Init /\ [][NextSchema]_vars

----------------------------------------------------------------------------
(* MapperBuilder. The heap holds the builders and the functions built from *)
(* them; a function refers to its builder by its position (this).          *)

\* the number of builders and functions the caller makes
MaxHeap == 4

\* new MapperBuilder(transforms)
MapperBuilder(transforms) == [kind |-> "builder", transforms |-> transforms]

\* mutant: the getter is pushed on the list of the receiver, which the new
\* builder shares
getPushesOnTheReceiver(h, this, getter) ==
    LET pushed == MapperBuilder(Append(h[this].transforms, getter))
    IN  Append([h EXCEPT ![this] = pushed], pushed)

\* MapperBuilder.get(getter): new MapperBuilder(this.transforms.concat(getter)),
\* concat returns a new array
get(h, this, getter) == Append(h, MapperBuilder(h[this].transforms \o <<getter>>))

\* MapperBuilder.context(getter); context is the name of a parameter of
\* the calls throughout, the method is written builderContext
builderContext(h, this, getter) == Append(h, MapperBuilder(h[this].transforms \o <<getter>>))

\* MapperBuilder.build(): the arrow function, closed over this
build(h, this) == Append(h, [kind |-> "function", s |-> "built", this |-> this])

\* for (const transform of this.transforms) { input = transform(input, context); }
\* return input
RECURSIVE pipe(_, _, _, _)
pipe(transforms, i, input, context) ==
    IF i > Len(transforms) THEN Normal(input)
    ELSE LET r == Invoke(transforms[i], input, context)
         IN  IF r.threw THEN Throw(r.value)
             ELSE pipe(transforms, i + 1, r.value, context)

\* the function build() returned, called: this.transforms is read at the call
built(h, fn, input, context) == pipe(h[fn.this].transforms, 1, input, context)

BuilderTransforms == {Fn("toUpperCase"), Fn("inStringOverride"), Fn("null")}

\* const builder = new MapperBuilder()
NewBuilder ==
    /\ heap = <<>>
    /\ engine = "none"
    /\ heap' = <<MapperBuilder(<<>>)>>
    /\ call' = [op |-> "new", input |-> Undefined, context |-> Undefined, again |-> FALSE]
    /\ UNCHANGED <<engine, decl, types, schema, schemaMap, result, log, tasks>>

\* builder.get(getter)
Get(this, getter) ==
    /\ Len(heap) < MaxHeap
    /\ heap[this].kind = "builder"
    /\ heap' = get(heap, this, getter)
    /\ call' = [op |-> "get", input |-> Undefined, context |-> Undefined, again |-> FALSE,
                this |-> this, getter |-> getter]
    /\ UNCHANGED <<engine, decl, types, schema, schemaMap, result, log, tasks>>

\* builder.context(getter)
Context(this, getter) ==
    /\ Len(heap) < MaxHeap
    /\ heap[this].kind = "builder"
    /\ heap' = builderContext(heap, this, getter)
    /\ call' = [op |-> "context", input |-> Undefined, context |-> Undefined, again |-> FALSE,
                this |-> this, getter |-> getter]
    /\ UNCHANGED <<engine, decl, types, schema, schemaMap, result, log, tasks>>

\* const mapper = builder.build()
Build(this) ==
    /\ Len(heap) < MaxHeap
    /\ heap[this].kind = "builder"
    /\ heap' = build(heap, this)
    /\ call' = [op |-> "build", input |-> Undefined, context |-> Undefined, again |-> FALSE,
                this |-> this]
    /\ UNCHANGED <<engine, decl, types, schema, schemaMap, result, log, tasks>>

\* mapper(input, context)
CallBuilt(fn, input, context) ==
    /\ heap[fn].kind = "function"
    /\ call' = [op |-> "built", input |-> input, context |-> context, again |-> FALSE,
                this |-> fn]
    /\ result' = Completion(built(heap, heap[fn], input, context))
    /\ UNCHANGED <<engine, decl, types, schema, schemaMap, log, tasks, heap>>

NextBuilder ==
    \/ NewBuilder
    \/ \E this \in 1..Len(heap), getter \in BuilderTransforms : Get(this, getter)
    \/ \E this \in 1..Len(heap), getter \in BuilderTransforms : Context(this, getter)
    \/ \E this \in 1..Len(heap) : Build(this)
    \/ \E fn \in 1..Len(heap), input \in Items, context \in Contexts :
           CallBuilt(fn, input, context)

SpecBuilder == Init /\ [][NextBuilder]_vars

----------------------------------------------------------------------------
(* What the calls gave back *)

\* the map calls that returned (sync) or whose promise fulfilled (async)
MapReturns ==
    (IF engine = "sync" /\ call.op = "map" /\ result.status = "returned"
     THEN {[input |-> call.input, context |-> call.context, value |-> result.value]}
     ELSE {})
    \cup {[input |-> tasks[n].input, context |-> tasks[n].context, value |-> tasks[n].value] :
            n \in {m \in 1..Len(tasks) : tasks[m].state = "fulfilled"}}

\* those of them made on an input that is an object
ObjectReturns == {r \in MapReturns : ~IsNullish(r.input)}

\* the rule is a transform that returns the sentinel for these arguments
Omits(rule, input, context) ==
    isMapperFunction(rule) /\ Invoke(rule, input, context) = Normal(OmitProperty)

\* the index of the first rule whose transform raises, 0 when none does
FirstThrow(sm, input, context) ==
    LET F == {i \in 1..Len(sm) :
                 isMapperFunction(sm[i].v) /\ Invoke(sm[i].v, input, context).threw}
    IN  IF IsNullish(input) \/ F = {} THEN 0
        ELSE CHOOSE i \in F : \A j \in F : i <= j

\* the index of the first element whose map raises, 0 when none does
FirstFailing(sm, items, context) ==
    LET E == {e \in 1..Len(items) : FirstThrow(sm, items[e], context) > 0}
    IN  IF E = {} THEN 0 ELSE CHOOSE e \in E : \A j \in E : e <= j

----------------------------------------------------------------------------
(* C1 *)

\* C1: the sync map and array return a null or undefined input itself, and
\* evaluate no rule of the schema for it (no field read, no transform call).
C1_AbsentInputPassesThrough ==
    (engine = "sync" /\ call.op \in {"map", "array"} /\ IsNullish(call.input)) =>
        /\ result = [status |-> "returned", value |-> call.input]
        /\ log = <<>>

C1_Witness ==
    /\ engine = "sync"
    /\ call.op = "array"
    /\ call.input = Null
    /\ result.status = "returned"
    /\ \E i \in 1..Len(schemaMap) : isMapperFunction(schemaMap[i].v)

----------------------------------------------------------------------------
(* C2 *)

\* C2: for every field-reference rule key -> name of the schema and every
\* map call on an object, the output has the key, holding input[name]: also
\* when that value is null or undefined or the input has no such field.
C2_FieldReferenceNeverOmits ==
    \A r \in ObjectReturns : \A i \in 1..Len(schema.entries) :
        LET e == schema.entries[i]
        IN  ~isMapperFunction(e.v) =>
                /\ HasOwn(r.value.entries, e.k)
                /\ GetProp(r.value, e.k) = GetProp(r.input, e.v.s)

C2_Witness ==
    /\ engine = "sync"
    /\ \E r \in ObjectReturns : \E i \in 1..Len(schema.entries) :
        /\ schema.entries[i].v = Str("in1")
        /\ ~HasOwn(r.input.entries, "in1")
        /\ HasOwn(r.value.entries, schema.entries[i].k)
        /\ GetProp(r.value, schema.entries[i].k) = Undefined

----------------------------------------------------------------------------
(* C3 *)

\* C3: a transform rule whose callable returns the Omission Sentinel (as
\* mapFrom.omit does) leaves its key out of the output of map altogether,
\* and every other rule of the schema still has its key in that output.
C3_SentinelOmitsTheKey ==
    \A r \in ObjectReturns : \A i \in 1..Len(schema.entries) :
        LET e == schema.entries[i]
        IN  HasOwn(r.value.entries, e.k) <=> ~Omits(e.v, r.input, r.context)

C3_Witness ==
    /\ engine = "sync"
    /\ \E r \in ObjectReturns : \E i, j \in 1..Len(schema.entries) :
        /\ schema.entries[i].v = Fn("omit")
        /\ ~HasOwn(r.value.entries, schema.entries[i].k)
        /\ i # j
        /\ HasOwn(r.value.entries, schema.entries[j].k)

----------------------------------------------------------------------------
(* C4 *)

\* C4: a transform rule whose callable returns a value other than the
\* sentinel, null and undefined included, has its key in the output of map,
\* holding exactly the value returned.
C4_OtherValuesAreWritten ==
    \A r \in ObjectReturns : \A i \in 1..Len(schema.entries) :
        LET e == schema.entries[i]
        IN  (isMapperFunction(e.v) /\ ~Omits(e.v, r.input, r.context)) =>
                /\ HasOwn(r.value.entries, e.k)
                /\ GetProp(r.value, e.k) = Invoke(e.v, r.input, r.context).value

C4_Witness ==
    /\ engine = "sync"
    /\ \E r \in ObjectReturns : \E i, j \in 1..Len(schema.entries) :
        /\ schema.entries[i].v = Fn("undefined")
        /\ HasOwn(r.value.entries, schema.entries[i].k)
        /\ GetProp(r.value, schema.entries[i].k) = Undefined
        /\ schema.entries[j].v = Fn("null")
        /\ HasOwn(r.value.entries, schema.entries[j].k)
        /\ GetProp(r.value, schema.entries[j].k) = Null

----------------------------------------------------------------------------
(* C5 *)

\* the entries whose rule does not return the sentinel for this call
Kept(entries, r) == SelectSeq(entries, LAMBDA e : ~Omits(e.v, r.input, r.context))

\* C5 as stated: the keys of the output of map (sync and async) are the keys
\* of the schema in the order the schema literal declares them, without the
\* keys the sentinel omitted.
C5_KeysInDeclarationOrder ==
    \A r \in ObjectReturns : OwnKeys(r.value.entries) = OwnKeys(Kept(decl, r))

\* C5 amended: the keys of the output of map (sync and async) are the keys
\* of the schema object in the order Object.entries gives them (integer-like
\* keys ascending, then the other keys in declaration order), without the
\* keys the sentinel omitted.
C5_KeysInSchemaObjectOrder ==
    \A r \in ObjectReturns : OwnKeys(r.value.entries) = OwnKeys(Kept(schema.entries, r))

C5_Witness ==
    /\ engine = "async"
    /\ OwnKeys(decl) = <<"b", "1">>
    /\ \E r \in ObjectReturns : OwnKeys(r.value.entries) = <<"1", "b">>

----------------------------------------------------------------------------
(* C6 *)

\* C6: the keys of the output of map are the keys of the schema object the
\* engine was built from, less the keys the sentinel omitted: a field of the
\* input that is no key of the schema is no key of the output, and a key of
\* the schema object that the declared output type does not have is mapped.
C6_OutputKeysAreSchemaKeys ==
    \A r \in ObjectReturns :
        KeySet(r.value.entries) =
            KeySet(schema.entries) \
                {schema.entries[i].k : i \in {j \in 1..Len(schema.entries) :
                    Omits(schema.entries[j].v, r.input, r.context)}}

C6_Witness ==
    /\ engine = "async"
    /\ \E r \in ObjectReturns :
        /\ HasOwn(r.input.entries, "in2")
        /\ "in2" \notin KeySet(r.value.entries)
        /\ \E k \in KeySet(r.value.entries) : k \notin types.outputKeys
        /\ \E k \in KeySet(r.value.entries) : k \in types.outputKeys

----------------------------------------------------------------------------
(* C7 *)

----------------------------------------------------------------------------
(* C8 *)

\* the calls that have completed, sync and async, with how they ended
Completed ==
    (IF engine = "sync" /\ call.op \in {"map", "array"}
     THEN {[op |-> call.op, input |-> call.input, context |-> call.context,
            threw |-> result.status = "threw", value |-> result.value]}
     ELSE {})
    \cup {[op |-> "map", input |-> tasks[n].input, context |-> tasks[n].context,
           threw |-> tasks[n].state = "rejected", value |-> tasks[n].value] :
            n \in {m \in 1..Len(tasks) : tasks[m].state # "awaiting"}}

\* the error a call on these arguments ends with, when a transform raises
ErrorOf(sm, c) ==
    IF c.op = "map"
    THEN Invoke(sm[FirstThrow(sm, c.input, c.context)].v, c.input, c.context).value
    ELSE LET item == c.input.items[FirstFailing(sm, c.input.items, c.context)]
         IN  Invoke(sm[FirstThrow(sm, item, c.context)].v, item, c.context).value

\* a transform raises in a call on these arguments
Raises(sm, c) ==
    /\ ~IsNullish(c.input)
    /\ IF c.op = "map" THEN FirstThrow(sm, c.input, c.context) > 0
       ELSE FirstFailing(sm, c.input.items, c.context) > 0

C8_FailsOnlyWhereATransformRaises ==
    \A c \in Completed :
        /\ c.threw <=> Raises(schemaMap, c)
        /\ c.threw => c.value = ErrorOf(schemaMap, c)

\* C8 amended, its frame part: no call, failed or not, changes the engine
\* or its schema.
C8_CallsLeaveTheEngine ==
    engine # "none" => UNCHANGED <<engine, decl, types, schema, schemaMap>>

----------------------------------------------------------------------------
(* C9 *)

\* the number of rule evaluations of the elements before element e
RECURSIVE EvaluationsBefore(_, _, _)
EvaluationsBefore(sm, items, e) ==
    IF e <= 1 THEN 0
    ELSE EvaluationsBefore(sm, items, e - 1)
         + (IF IsNullish(items[e - 1]) THEN 0 ELSE Len(sm))

\* C9: when a transform raises during a sync map or array, the call throws
\* that very error and returns no object or sequence, and the rules after
\* the raising one are not evaluated: the last evaluation of the call is
\* the raising transform's.
C9_TransformErrorPropagates ==
    (engine = "sync" /\ call.op \in {"map", "array"}
        /\ Raises(schemaMap, [op |-> call.op, input |-> call.input, context |-> call.context])) =>
        LET c == [op |-> call.op, input |-> call.input, context |-> call.context]
            e == IF call.op = "map" THEN 0
                 ELSE FirstFailing(schemaMap, call.input.items, call.context)
            item == IF call.op = "map" THEN call.input ELSE call.input.items[e]
            f == FirstThrow(schemaMap, item, call.context)
        IN  /\ result = [status |-> "threw", value |-> ErrorOf(schemaMap, c)]
            /\ result.value.kind = "error"
            /\ Len(log) = EvaluationsBefore(schemaMap,
                              IF call.op = "map" THEN <<>> ELSE call.input.items, e) + f
            /\ log[Len(log)] = Event(schemaMap[f].k, schemaMap[f].v, item, call.context)
            /\ \A n \in 1..Len(log) :
                   log[n].input = item => \E i \in 1..f : log[n].k = schemaMap[i].k

C9_Witness ==
    /\ engine = "sync"
    /\ call.op = "array"
    /\ result.status = "threw"
    /\ Len(call.input.items) = 2
    /\ Len(schemaMap) = 2
    /\ Len(log) = 3
    /\ log[3].rule = Fn("toUpperCase")

----------------------------------------------------------------------------
(* C10 *)

\* C10: the sync array on a sequence returns an array of the length of the
\* input whose element i is what map gives for element i of the input with
\* the same context, in iteration order; an absent element stays absent.
C10_ArrayMapsElementwise ==
    (engine = "sync" /\ call.op = "array" /\ ~IsNullish(call.input)) =>
        LET items == call.input.items
            mapped == [i \in 1..Len(items) |-> map(schemaMap, items[i], call.context)]
        IN  /\ result.status = "returned" <=> \A i \in 1..Len(items) : ~mapped[i].threw
            /\ result.status = "returned" =>
                /\ result.value.kind = "array"
                /\ Len(result.value.items) = Len(items)
                /\ \A i \in 1..Len(items) :
                    /\ result.value.items[i] = mapped[i].value
                    /\ IsNullish(items[i]) => result.value.items[i] = items[i]

C10_Witness ==
    /\ engine = "sync"
    /\ call.op = "array"
    /\ call.input.kind = "array"
    /\ result.status = "returned"
    /\ Len(call.input.items) = 2
    /\ call.input.items[1] = Undefined
    /\ result.value.items[1] = Undefined
    /\ result.value.items[2].kind = "object"
    /\ result.value.items[2].entries # <<>>

----------------------------------------------------------------------------
(* C12 *)

\* the async map calls whose promise fulfilled with an object
AsyncReturns ==
    {tasks[n] : n \in {m \in 1..Len(tasks) :
        tasks[m].state = "fulfilled" /\ ~IsNullish(tasks[m].input)}}

\* C12: in the async engine the comparison with the sentinel is made on the
\* value the transform's promise resolves to: a transform whose promise
\* resolves to the sentinel leaves its key out of the output, and a transform
\* whose promise resolves to another value, null and undefined included, has
\* that resolved value under its key, never the promise.
C12_SentinelComparedAfterAwait ==
    engine = "async" =>
        \A f \in AsyncReturns : \A i \in 1..Len(schemaMap) :
            LET e == schemaMap[i]
                returned == AsyncInvoke(e.v, f.input, f.context).value
            IN  isAsyncMapperFunction(e.v) =>
                    /\ returned.kind = "promise"
                    /\ ~returned.settles.threw
                    /\ returned.settles.value = OmitProperty =>
                            ~HasOwn(f.value.entries, e.k)
                    /\ returned.settles.value # OmitProperty =>
                            /\ HasOwn(f.value.entries, e.k)
                            /\ GetProp(f.value, e.k) = returned.settles.value
                            /\ GetProp(f.value, e.k).kind # "promise"

C12_Witness ==
    /\ engine = "async"
    /\ \E f \in AsyncReturns : \E i, j \in 1..Len(schemaMap) :
        /\ schemaMap[i].v = Fn("omit")
        /\ ~HasOwn(f.value.entries, schemaMap[i].k)
        /\ schemaMap[j].v = Fn("undefined")
        /\ HasOwn(f.value.entries, schemaMap[j].k)
        /\ GetProp(f.value, schemaMap[j].k) = Undefined

----------------------------------------------------------------------------
(* C13 *)

\* C13: an async map call settles as the sync map over the same rules, with
\* the transforms taken synchronously, completes for the same input and
\* context: it fulfils with the object the sync map returns (same keys, same
\* order, same values) and rejects where the sync map throws.
C13_AsyncMapEqualsSyncMap ==
    engine = "async" =>
        \A n \in 1..Len(tasks) :
            LET f == tasks[n]
                r == map(schemaMap, f.input, f.context)
            IN  f.state # "awaiting" =>
                    /\ f.state = "rejected" <=> r.threw
                    /\ f.value = r.value

C13_Witness ==
    /\ engine = "async"
    /\ \E f \in AsyncReturns :
        /\ Len(schemaMap) = 2
        /\ schemaMap[1].v = Fn("inStringOverride")
        /\ schemaMap[2].v = Fn("toUpperCase")
        /\ f.value = map(schemaMap, f.input, f.context).value
        /\ Len(f.value.entries) = 2

----------------------------------------------------------------------------
(* C14 *)

\* what a caller can see of each async map call: nothing while it awaits,
\* the error of the first failing transform when it has rejected, and an
\* output only when every rule was evaluated and no transform failed
C14_NoPartialOutput ==
    engine = "async" =>
        \A n \in 1..Len(tasks) :
            LET f == tasks[n]
                c == [op |-> "map", input |-> f.input, context |-> f.context]
            IN  /\ f.state = "awaiting" =>
                    /\ f.value = Undefined
                    /\ isAsyncMapperFunction(schemaMap[f.i].v)
                    /\ Len(f.log) = f.i
                /\ f.state = "rejected" =>
                    /\ Raises(schemaMap, c)
                    /\ f.value = ErrorOf(schemaMap, c)
                    /\ f.value.kind = "error"
                /\ (f.state = "fulfilled" /\ ~IsNullish(f.input)) =>
                    /\ ~Raises(schemaMap, c)
                    /\ Len(f.log) = Len(schemaMap)
                    /\ f.value.kind = "object"

\* a call fulfils only from the await of its last transform, and rejects
\* only when the promise it awaits rejects
C14_SettlesAtTheLastAwait ==
    \A n \in 1..Len(tasks) :
        (n <= Len(tasks') /\ tasks[n].state = "awaiting") =>
            /\ tasks'[n].state = "fulfilled" =>
                \A j \in (tasks[n].i + 1)..Len(schemaMap) :
                    ~isAsyncMapperFunction(schemaMap[j].v)
            /\ tasks'[n].state = "rejected" => Await(tasks[n].pending.value).threw

\* C14: async map is all-or-nothing: when a transform fails the promise of
\* map rejects with that transform's error and never fulfils, the fields
\* filled before the failure are not visible to the caller, and when none
\* fails the promise fulfils only after the last transform has settled.
C14_AllOrNothing ==
    []C14_NoPartialOutput /\ [][C14_SettlesAtTheLastAwait]_vars

C14_Witness ==
    /\ engine = "async"
    /\ Len(tasks) = 1
    /\ tasks[1].state = "rejected"
    /\ Len(schemaMap) = 2
    /\ schemaMap[1].v = Fn("inStringOverride")
    /\ schemaMap[2].v = Fn("toUpperCase")
    /\ tasks[1].context # Undefined
    /\ tasks[1].value = TypeError("in1.toUpperCase")

----------------------------------------------------------------------------
(* C20 *)

\* one evaluation per rule of the schema, in schema order, on these arguments
RuleEvents(sm, input, context) ==
    [i \in 1..Len(sm) |-> Event(sm[i].k, sm[i].v, input, context)]

\* the evaluations that call a transform
Invocations(l) == SelectSeq(l, LAMBDA e : isMapperFunction(e.rule))

\* the evaluations of an array call: those of its non-absent elements, in order
RECURSIVE ArrayEvents(_, _, _)
ArrayEvents(sm, items, context) ==
    IF items = <<>> THEN <<>>
    ELSE (IF IsNullish(Head(items)) THEN <<>> ELSE RuleEvents(sm, Head(items), context))
         \o ArrayEvents(sm, Tail(items), context)

\* C20: a map call on an object that returns has called every transform of
\* the schema exactly once, in schema order, each with the input and the
\* context of the caller (array: for every element in turn, with the same
\* context); a callable under several keys is called once per key, and a
\* field reference calls nothing.
C20_EachTransformOnceInOrder ==
    /\ (engine = "sync" /\ call.op = "map" /\ ~IsNullish(call.input)
            /\ result.status = "returned") =>
        /\ log = RuleEvents(schemaMap, call.input, call.context)
        /\ Len(Invocations(log)) =
            Cardinality({i \in 1..Len(schemaMap) : isMapperFunction(schemaMap[i].v)})
    /\ (engine = "sync" /\ call.op = "array" /\ ~IsNullish(call.input)
            /\ result.status = "returned") =>
        /\ Invocations(log) =
            Invocations(ArrayEvents(schemaMap, call.input.items, call.context))
        /\ \A n \in 1..Len(log) : log[n].context = call.context
    /\ engine = "async" =>
        \A f \in AsyncReturns : f.log = RuleEvents(schemaMap, f.input, f.context)

C20_Witness ==
    /\ engine = "sync"
    /\ call.op = "map"
    /\ result.status = "returned"
    /\ call.context # Undefined
    /\ Len(schemaMap) = 2
    /\ schemaMap[1].v = Fn("inStringOverride")
    /\ schemaMap[2].v = Fn("inStringOverride")
    /\ Len(Invocations(log)) = 2
    /\ log[1].context = call.context
    /\ log[2].context = call.context

----------------------------------------------------------------------------
(* C11 *)

\* an async array call run to its end, the awaited promises settling in
\* index order: how its promise settles
RECURSIVE asyncArrayRun(_, _, _, _)
asyncArrayRun(sm, input, context, a) ==
    LET W == {n \in 1..Len(a.tasks) : a.tasks[n].state = "awaiting"}
    IN  IF W = {} THEN a.result
        ELSE asyncArrayRun(sm, input, context,
                 asyncArrayResume(sm, input, context, a.tasks, a.result,
                                  CHOOSE n \in W : \A m \in W : n <= m))

----------------------------------------------------------------------------
(* C15 *)

\* C15: async array on an array has the map of every element started as
\* soon as it is called, before any of them is awaited, and whatever the
\* order in which the element maps complete it fulfils with the sequence
\* whose element i is what map gives for element i of the input.
C15_ArrayElementsInFlightTogether ==
    (engine = "async" /\ call.op = "array" /\ ~IsNullish(call.input)
        /\ call.input.kind = "array") =>
        LET items == call.input.items
            mapped == [i \in 1..Len(items) |-> map(schemaMap, items[i], call.context)]
        IN  /\ Len(tasks) = Len(items)
            /\ \A i \in 1..Len(items) :
                /\ tasks[i].input = items[i]
                /\ tasks[i].context = call.context
                /\ (~IsNullish(items[i]) /\ schemaMap # <<>>) => tasks[i].log # <<>>
            /\ result.status = "returned" =>
                /\ result.value.kind = "array"
                /\ Len(result.value.items) = Len(items)
                /\ \A i \in 1..Len(items) :
                    ~mapped[i].threw /\ result.value.items[i] = mapped[i].value
            /\ (\A i \in 1..Len(items) : tasks[i].state = "fulfilled") =>
                result.status = "returned"

\* both element maps are suspended at an await, nothing has settled yet
C15_Witness ==
    /\ engine = "async"
    /\ call.op = "array"
    /\ call.input.kind = "array"
    /\ Len(tasks) = 2
    /\ tasks[1].state = "awaiting"
    /\ tasks[2].state = "awaiting"
    /\ tasks[1].input # tasks[2].input
    /\ result = NoResult

----------------------------------------------------------------------------
(* C16 *)

\* the errors the element maps of the call can fail with
ElementErrors(sm, items, context) ==
    {ErrorOf(sm, [op |-> "map", input |-> items[i], context |-> context]) :
        i \in {j \in 1..Len(items) : FirstThrow(sm, items[j], context) > 0}}

\* an async array call in which a transform fails rejects with the error of
\* a transform, and a call that fulfils has an output for every element
C16_RejectsWithATransformError ==
    (engine = "async" /\ call.op = "array" /\ ~IsNullish(call.input)) =>
        LET items == call.input.items
            failed == \E n \in 1..Len(tasks) : tasks[n].state = "rejected"
        IN  /\ failed => result.status = "threw"
            /\ result.status = "threw" =>
                /\ failed
                /\ result.value.kind = "error"
                /\ result.value \in ElementErrors(schemaMap, items, call.context)
            /\ result.status = "returned" =>
                /\ ElementErrors(schemaMap, items, call.context) = {}
                /\ Len(result.value.items) = Len(items)
            /\ (result.status = "threw" /\ call.input.kind = "array") =>
                Len(tasks) = Len(items)

\* once rejected the call stays rejected with the same error, while the
\* element maps still in flight run on as they would have
C16_RejectionIsFinal ==
    (engine = "async" /\ call.op = "array" /\ result.status = "threw" /\ call' = call) =>
        /\ result' = result
        /\ \A n \in 1..Len(tasks) :
            tasks'[n] # tasks[n] => tasks'[n] = asyncMapResume(schemaMap, tasks[n])

\* C16: when a transform fails during an async array call, the promise of
\* array rejects with a transform's error and never fulfils with a partial
\* sequence; for an array input the element maps in flight are not
\* cancelled and run on, and what they end with does not change the
\* rejection.
C16_ArrayRejection ==
    []C16_RejectsWithATransformError /\ [][C16_RejectionIsFinal]_vars

\* two element maps have failed with different errors: the call has rejected
\* with the first, the second ran on after that and its error is dropped
C16_Witness ==
    /\ engine = "async"
    /\ call.op = "array"
    /\ call.input.kind = "array"
    /\ result.status = "threw"
    /\ Len(tasks) = 2
    /\ tasks[1].state = "rejected"
    /\ tasks[2].state = "rejected"
    /\ tasks[1].value # tasks[2].value
    /\ result.value = tasks[2].value

----------------------------------------------------------------------------
(* C17 *)

\* C17: the async map and array fulfil with a null or undefined input
\* itself, and evaluate no rule of the schema for it: no transform is
\* called, no field is read, no element map is started.
C17_AsyncAbsentInputPassesThrough ==
    engine = "async" =>
        /\ (call.op = "array" /\ IsNullish(call.input)) =>
            /\ result = [status |-> "returned", value |-> call.input]
            /\ tasks = <<>>
            /\ log = <<>>
        /\ \A n \in 1..Len(tasks) :
            IsNullish(tasks[n].input) =>
                /\ tasks[n].state = "fulfilled"
                /\ tasks[n].value = tasks[n].input
                /\ tasks[n].log = <<>>

C17_Witness ==
    /\ engine = "async"
    /\ call.op = "array"
    /\ call.input = Null
    /\ result = [status |-> "returned", value |-> Null]
    /\ \E i \in 1..Len(schemaMap) : isAsyncMapperFunction(schemaMap[i].v)

----------------------------------------------------------------------------
(* C18 *)

\* an async map call run to its end: the frame it settles with
RECURSIVE asyncMapRun(_, _)
asyncMapRun(sm, f) ==
    IF f.state = "awaiting" THEN asyncMapRun(sm, asyncMapResume(sm, f)) ELSE f

\* the rule is the callable of another engine
IsMapperFunctionOfAnEngine(rule) ==
    rule.kind = "function" /\ rule.s = "objectMapperFunction"

\* C18: the callable that toFunction() returns has as its schema attribute
\* the very schema object of the engine, not a copy; called, it completes as
\* the engine's map does for the same input and context (same output, same
\* error, absent input passed through); and as a rule of another schema it
\* gives, as the value of its field, what the inner engine's map returns for
\* the outer input and the outer context.
C18_FunctionIsTheEnginesMap ==
    /\ call.op = "toFunction" =>
        /\ result.value.kind = "function"
        /\ result.value.schema = This.schema
        /\ result.value.this = This
    /\ (call.op = "function" /\ engine = "sync") =>
        LET r == map(schemaMap, call.input, call.context)
        IN  /\ result = Completion(r)
            /\ log = r.log
            /\ (result.status = "returned" /\ ~IsNullish(call.input)) =>
                \A i \in 1..Len(schemaMap) :
                    IsMapperFunctionOfAnEngine(schemaMap[i].v) =>
                        LET inner == map(schemaMap[i].v.this.schemaMap,
                                         call.input, call.context)
                        IN  /\ ~inner.threw
                            /\ HasOwn(result.value.entries, schemaMap[i].k)
                            /\ GetProp(result.value, schemaMap[i].k) = inner.value
    /\ (call.op = "function" /\ engine = "async") =>
        /\ Len(tasks) = 1
        /\ asyncMapRun(schemaMap, tasks[1]) =
            asyncMapRun(schemaMap, asyncMap(schemaMap, call.input, call.context))
        /\ (tasks[1].state = "fulfilled" /\ ~IsNullish(call.input)) =>
            \A i \in 1..Len(schemaMap) :
                IsMapperFunctionOfAnEngine(schemaMap[i].v) =>
                    GetProp(tasks[1].value, schemaMap[i].k) =
                        map(schemaMap[i].v.this.schemaMap, call.input, call.context).value

C18_Witness ==
    /\ engine = "sync"
    /\ call.op = "function"
    /\ result.status = "returned"
    /\ call.context # Undefined
    /\ Len(schemaMap) = 2
    /\ schemaMap[1].v = nestedFunction
    /\ GetProp(result.value, schemaMap[1].k) =
        Obj(<<[k |-> "a", v |-> Str("x")], [k |-> "b", v |-> Str("o")]>>)

----------------------------------------------------------------------------
(* C19 *)

\* how the map of the second engine ended, when it has
MapV2Completions ==
    IF engine = "sync" THEN {[threw |-> result.status = "threw", value |-> result.value]}
    ELSE {[threw |-> tasks[n].state = "rejected", value |-> tasks[n].value] :
            n \in {m \in 1..Len(tasks) : tasks[m].state # "awaiting"}}

\* C19: an engine built over rules read from the schema of a first engine
\* by field name, kept under their name or put under another, with new rules
\* added, holds those very rules, and for every input and context its output
\* has, for each reused rule, the value the first engine's output has for
\* that rule; the first engine and its schema are as they were before, and
\* so are its outputs.
C19_ReusedRulesGiveTheSameValues ==
    /\ call.op \in {"reuse", "mapV2"} =>
        /\ schema = Obj(ObjectLiteral(decl))
        /\ schemaMap = constructor(schema)
        /\ LET v2 == IF call.op = "reuse" THEN result.value ELSE call.mapper
           IN  \A p \in call.reused : \E i \in 1..Len(v2.schemaMap) :
                   /\ v2.schemaMap[i].k = p.to
                   /\ v2.schemaMap[i].v = GetProp(schema, p.from)
    /\ call.op = "mapV2" =>
        LET v1 == map(constructor(Obj(ObjectLiteral(decl))), call.input, call.context)
        IN  \A c \in MapV2Completions :
                /\ IsNullish(call.input) => c = [threw |-> FALSE, value |-> call.input]
                /\ (~IsNullish(call.input) /\ ~c.threw /\ ~v1.threw) =>
                    \A p \in call.reused :
                        /\ HasOwn(c.value.entries, p.to) <=> HasOwn(v1.value.entries, p.from)
                        /\ GetProp(c.value, p.to) = GetProp(v1.value, p.from)

C19_Witness ==
    /\ engine = "sync"
    /\ call.op = "mapV2"
    /\ result.status = "returned"
    /\ OwnKeys(schemaMap) = <<"a", "b">>
    /\ schemaMap[1].v = Fn("toUpperCase")
    /\ schemaMap[2].v = Str("in1")
    /\ call.reused = {[from |-> "a", to |-> "a"], [from |-> "b", to |-> "c"]}
    /\ result.value =
        Obj(<<[k |-> "a", v |-> Str("X")], [k |-> "c", v |-> Str("x")],
              [k |-> "d", v |-> Str("x")]>>)

----------------------------------------------------------------------------
(* C21: map, array and toFunction never change their arguments. After a    *)
(* call of the sync engine, returned or thrown, the input, the context and *)
(* the schema object are on the heap as they were before the call, and     *)
(* what the call returns for an input that is not absent is a new object,  *)
(* at a position that held nothing before, with the mapped fields. A map   *)
(* call of the async engine keeps its input and its context over all its   *)
(* steps, and no call changes the schema object.                           *)

C21_CallerObjectsAsBefore ==
    /\ schema = Obj(ObjectLiteral(decl))
    /\ heap # <<>> =>
        /\ heap[1] = call.input
        /\ heap[2] = call.context
        /\ heap[3] = schema
        /\ result.status = "returned" /\ call.op = "map" /\ ~IsNullish(call.input) =>
            /\ result.value = At(4)
            /\ heap[4] = map(schemaMap, call.input, call.context).value
        /\ result.status = "returned" /\ call.op = "array" /\ ~IsNullish(call.input) =>
            /\ result.value = At(4)
            /\ heap[4] = array(schemaMap, call.input, call.context).value
        /\ call.op = "toFunction" => result.value = At(4) /\ heap[4] = toFunction(This)

C21_FramesKeepTheirArguments ==
    \A n \in 1..Len(tasks) :
        n <= Len(tasks') =>
            tasks'[n].input = tasks[n].input /\ tasks'[n].context = tasks[n].context

C21_ArgumentsNeverChanged ==
    []C21_CallerObjectsAsBefore /\ [][C21_FramesKeepTheirArguments]_vars

\* a map call returned a new object with a field, for an input with fields
C21_Witness ==
    /\ call.op = "map"
    /\ result = [status |-> "returned", value |-> At(4)]
    /\ heap[1] = Obj(<<[k |-> "in1", v |-> Str("x")], [k |-> "in2", v |-> Str("y")]>>)
    /\ heap[4] = Obj(<<[k |-> "a", v |-> Str("X")]>>)

----------------------------------------------------------------------------
(* C22: the engine keeps no state between calls. With two async map calls  *)
(* in flight, on one engine or on two engines that wrap one schema object, *)
(* settled in any order, each call settles as it does when it runs alone   *)
(* (same outcome, same output or error), and the rule map of the engine is *)
(* the one built at construction all along.                                *)

C22_EachCallSettlesAsAlone ==
    /\ engine = "async" => schemaMap = asyncConstructor(Obj(ObjectLiteral(decl)))
    /\ \A n \in 1..Len(tasks) :
           LET alone == asyncMapRun(schemaMap,
                                    asyncMap(schemaMap, tasks[n].input, tasks[n].context))
           IN  tasks[n].state # "awaiting" =>
                   tasks[n].state = alone.state /\ tasks[n].value = alone.value

\* two calls on one engine with different inputs and contexts, the first
\* has a field in its output and is at an await, the second has fulfilled
\* meanwhile
C22_Witness ==
    /\ Len(tasks) = 2
    /\ heap[1].of = 1 /\ heap[2].of = 1
    /\ tasks[1].state = "awaiting"
    /\ tasks[1].output = <<[k |-> "a", v |-> Str("x")]>>
    /\ tasks[1].context = Undefined
    /\ tasks[2].state = "fulfilled"
    /\ tasks[2].value = Obj(<<[k |-> "a", v |-> Null], [k |-> "b", v |-> Str("o")]>>)

----------------------------------------------------------------------------
(* C23: the convenience transforms are constant functions of the input and *)
(* the context. For the arguments of every map call made, constant(v)      *)
(* returns v, null returns null, undefined returns undefined and omit      *)
(* returns the sentinel the engine compares with; the async variants       *)
(* return promises that fulfil with the same values. In the output of the  *)
(* call the key of a constant holds v, the key of null holds null, the key *)
(* of undefined is present and undefined, and the key of omit is absent.   *)

\* the arguments the rules of the map calls were called with
MapArguments ==
    (IF engine = "sync" /\ call.op = "map" /\ ~IsNullish(call.input)
     THEN {[input |-> call.input, context |-> call.context]} ELSE {})
    \cup {[input |-> tasks[n].input, context |-> tasks[n].context] :
            n \in {m \in 1..Len(tasks) : ~IsNullish(tasks[m].input)}}

ConstantValues == {Str("Hello"), Null, Undefined, Obj(<<>>)}

C23_ConvenienceTransformsAreConstant ==
    /\ \A c \in MapArguments :
        /\ \A v \in ConstantValues :
            /\ constant(v, c.input, c.context) = Normal(v)
            /\ Invoke(mapFromConstant(v), c.input, c.context) = Normal(v)
            /\ Await(mapFromAsyncConstant(v, c.input, c.context).value) = Normal(v)
            /\ AsyncInvoke(mapFromConstant(v), c.input, c.context)
                   = mapFromAsyncConstant(v, c.input, c.context)
        /\ mapFromNull(c.input, c.context) = Normal(Null)
        /\ mapFromUndefined(c.input, c.context) = Normal(Undefined)
        /\ omit(c.input, c.context) = Normal(OmitProperty)
        /\ Await(mapFromAsyncNull(c.input, c.context).value) = Normal(Null)
        /\ Await(mapFromAsyncUndefined(c.input, c.context).value) = Normal(Undefined)
        /\ Await(mapFromAsyncOmit(c.input, c.context).value) = Normal(OmitProperty)
        /\ AsyncInvoke(Fn("null"), c.input, c.context) = mapFromAsyncNull(c.input, c.context)
        /\ AsyncInvoke(Fn("undefined"), c.input, c.context)
               = mapFromAsyncUndefined(c.input, c.context)
        /\ AsyncInvoke(Fn("omit"), c.input, c.context) = mapFromAsyncOmit(c.input, c.context)
    /\ \A r \in ObjectReturns : \A i \in 1..Len(schemaMap) :
        LET key == schemaMap[i].k
            rule == schemaMap[i].v
        IN  /\ rule = mapFromConstant(Str("Hello")) =>
                HasOwn(r.value.entries, key) /\ GetProp(r.value, key) = Str("Hello")
            /\ rule = Fn("null") =>
                HasOwn(r.value.entries, key) /\ GetProp(r.value, key) = Null
            /\ rule = Fn("undefined") =>
                HasOwn(r.value.entries, key) /\ GetProp(r.value, key) = Undefined
            /\ rule = Fn("omit") => ~HasOwn(r.value.entries, key)

\* an async map call over { a: constant('Hello'), b: omit } has fulfilled
C23_Witness ==
    /\ engine = "async"
    /\ decl = <<[k |-> "a", v |-> mapFromConstant(Str("Hello"))], [k |-> "b", v |-> Fn("omit")]>>
    /\ Len(tasks) = 1
    /\ tasks[1].state = "fulfilled"
    /\ tasks[1].input = Obj(<<[k |-> "in1", v |-> Null]>>)
    /\ tasks[1].value = Obj(<<[k |-> "a", v |-> Str("Hello")]>>)

----------------------------------------------------------------------------
(* C24: pick is the same as plain field references. pick(k1, ..., kn) is   *)
(* the object whose keys are the ki, each holding its own name; a key that *)
(* comes again in the arguments changes nothing; the async pick returns    *)
(* what the sync pick returns. For a schema spread from pick(k1, ..., kn)  *)
(* the output of every map call on an input that is not absent has each ki *)
(* as a key, holding input[ki] as it is.                                   *)

\* the argument list without the keys that came before
RECURSIVE Once(_)
Once(keys) ==
    IF keys = <<>> THEN <<>>
    ELSE LET front == Once(SubSeq(keys, 1, Len(keys) - 1))
             key == keys[Len(keys)]
         IN  IF \E i \in 1..Len(front) : front[i] = key THEN front ELSE Append(front, key)

C24_PickIsFieldReferences ==
    \A keys \in PickArgs :
        /\ pick(keys) = Obj(ObjectLiteral([i \in 1..Len(keys) |->
                                              [k |-> keys[i], v |-> Str(keys[i])]]))
        /\ pick(keys) = pick(Once(keys))
        /\ mapFromAsyncPick(keys) = pick(keys)
        /\ decl = ObjectEntries(pick(keys)) =>
            \A r \in ObjectReturns : \A i \in 1..Len(keys) :
                /\ HasOwn(r.value.entries, keys[i])
                /\ GetProp(r.value, keys[i]) = GetProp(r.input, keys[i])

\* a map call over { ...pick('in1', 'in2') } returned the two fields; the
\* same schema is what pick('in1', 'in2', 'in1') gives
C24_Witness ==
    /\ engine = "sync"
    /\ call.op = "map"
    /\ decl = ObjectEntries(pick(<<"in1", "in2", "in1">>))
    /\ Len(decl) = 2
    /\ call.input = Obj(<<[k |-> "in1", v |-> Str("x")], [k |-> "in2", v |-> Str("y")]>>)
    /\ result = [status |-> "returned", value |-> call.input]

----------------------------------------------------------------------------
(* C25: a transform of an outer engine that builds a nested input and      *)
(* calls a second engine's map or array with a sub-context. In the output  *)
(* of every outer map call the field of such a rule is present and holds   *)
(* what the nested engine returns for the nested input and the             *)
(* sub-context: the transforms of the nested engine were given the         *)
(* sub-context and not the context of the outer call, and for a nested     *)
(* input that is null or undefined the field holds that null or undefined. *)

\* the nested input the rule builds from the outer input
NestedInput(rule, input) ==
    CASE rule.s = "nestedMap" -> Obj(<<[k |-> "in1", v |-> GetProp(input, "in1")]>>)
      [] rule.s = "nestedNullable" -> GetProp(input, "nested")
      [] rule.s = "nestedArray" -> GetProp(input, "list")

\* what the nested engine returns for it
NestedCall(rule, input, context) ==
    IF rule.s = "nestedArray"
    THEN array(rule.mapper.schemaMap, NestedInput(rule, input), context)
    ELSE map(rule.mapper.schemaMap, NestedInput(rule, input), context)

C25_NestedEngineGetsTheSubContext ==
    \A r \in ObjectReturns : \A i \in 1..Len(schemaMap) :
        LET key == schemaMap[i].k
            rule == schemaMap[i].v
            nested == NestedCall(rule, r.input, SubContext)
            field == GetProp(r.value, key)
        IN  rule \in {Nested("nestedMap"), Nested("nestedNullable"), Nested("nestedArray")} =>
                /\ HasOwn(r.value.entries, key)
                /\ field = nested.value
                /\ \A e \in 1..Len(nested.log) :
                       nested.log[e].context = SubContext /\ nested.log[e].context # r.context
                /\ field.kind = "object" => GetProp(field, "b") = Str("s")
                /\ IsNullish(NestedInput(rule, r.input)) => field = NestedInput(rule, r.input)

\* an outer call with a context of its own: the nested output holds the
\* value of the sub-context, and the field of the absent nested input is null
C25_Witness ==
    /\ engine = "sync"
    /\ call.op = "map"
    /\ call.context = Obj(<<[k |-> "inStringOverride", v |-> Str("o")]>>)
    /\ decl = <<[k |-> "a", v |-> Nested("nestedMap")], [k |-> "b", v |-> Nested("nestedNullable")]>>
    /\ GetProp(call.input, "nested") = Null /\ HasOwn(call.input.entries, "nested")
    /\ result = [status |-> "returned",
                 value |-> Obj(<<[k |-> "a", v |-> Obj(<<[k |-> "a", v |-> Str("x")],
                                                        [k |-> "b", v |-> Str("s")]>>)],
                                 [k |-> "b", v |-> Null]>>)]

----------------------------------------------------------------------------
(* C26: the sentinel in the outputs. The objects map returns and the       *)
(* objects in the sequences array returns, each with the input it was      *)
(* mapped from.                                                            *)

Outputs ==
    {[input |-> r.input, value |-> r.value] : r \in ObjectReturns}
    \cup (IF engine = "sync" /\ call.op = "array" /\ result.status = "returned"
             /\ result.value.kind = "array"
          THEN {[input |-> call.input.items[i], value |-> result.value.items[i]] :
                  i \in {j \in 1..Len(result.value.items) :
                            result.value.items[j].kind = "object"}}
          ELSE {})

\* C26 as the claim states it: for every schema and every input, no field
\* of an output object of map or of array holds the sentinel
C26_NoOutputFieldHoldsTheSentinel ==
    \A o \in Outputs : \A i \in 1..Len(o.value.entries) :
        o.value.entries[i].v # OmitProperty

\* C26 as the code has it: the sentinel a transform returns is never
\* written; a field of an output holds the sentinel only under the key of
\* a field reference to an input field that holds the sentinel
C26_SentinelOnlyCopiedFromTheInput ==
    \A o \in Outputs : \A i \in 1..Len(o.value.entries) :
        o.value.entries[i].v = OmitProperty =>
            \E j \in 1..Len(schemaMap) :
                /\ schemaMap[j].k = o.value.entries[i].k
                /\ ~isMapperFunction(schemaMap[j].v)
                /\ GetProp(o.input, schemaMap[j].v.s) = OmitProperty

\* the input holds the sentinel in the field a rule refers to; the output
\* has it under the key of that rule, and the key of omit is left out
C26_Witness ==
    /\ engine = "sync"
    /\ call.op = "map"
    /\ decl = <<[k |-> "a", v |-> Str("in1")], [k |-> "b", v |-> Fn("omit")]>>
    /\ call.input = Obj(<<[k |-> "in1", v |-> OmitProperty]>>)
    /\ result = [status |-> "returned", value |-> Obj(<<[k |-> "a", v |-> OmitProperty]>>)]

----------------------------------------------------------------------------
(* C27: within one async map call the transforms run one after another in  *)
(* the order of the schema. A call at an await has evaluated the rules up  *)
(* to the one it awaits and no rule behind it; a step of the call starts   *)
(* at most one more transform, and only after the promise it awaited has   *)
(* fulfilled; when that promise rejects the call rejects and no transform  *)
(* is called in that step or in any later one, a settled call never moves. *)

\* the rules the call has evaluated are the first n of the schema
EvaluatedUpTo(f, n) ==
    f.log = [j \in 1..n |-> Event(schemaMap[j].k, schemaMap[j].v, f.input, f.context)]

C27_NoTransformAhead ==
    \A n \in 1..Len(tasks) :
        LET f == tasks[n]
        IN  /\ f.state = "awaiting" =>
                /\ isAsyncMapperFunction(schemaMap[f.i].v)
                /\ EvaluatedUpTo(f, f.i)
            /\ f.state = "rejected" =>
                /\ Len(f.log) \in 1..Len(schemaMap)
                /\ EvaluatedUpTo(f, Len(f.log))
                /\ isAsyncMapperFunction(schemaMap[Len(f.log)].v)

C27_OneMoreTransformAfterTheAwait ==
    \A n \in 1..Len(tasks) :
        (n <= Len(tasks') /\ tasks'[n] # tasks[n]) =>
            LET f == tasks[n]
                g == tasks'[n]
                started == Len(Invocations(g.log)) - Len(Invocations(f.log))
            IN  /\ f.state = "awaiting"
                /\ SubSeq(g.log, 1, Len(f.log)) = f.log
                /\ started \in {0, 1}
                /\ started = 1 => ~Await(f.pending.value).threw /\ g.state = "awaiting" /\ g.i > f.i
                /\ Await(f.pending.value).threw => g.state = "rejected" /\ g.log = f.log

C27_TransformsOneAfterAnother ==
    []C27_NoTransformAhead /\ [][C27_OneMoreTransformAfterTheAwait]_vars

\* the first of two transforms has failed, the second was never called
C27_Witness ==
    /\ Len(tasks) >= 1
    /\ Len(schemaMap) = 2
    /\ isAsyncMapperFunction(schemaMap[1].v) /\ isAsyncMapperFunction(schemaMap[2].v)
    /\ tasks[1].state = "rejected"
    /\ Len(tasks[1].log) = 1

----------------------------------------------------------------------------
(* C28: async array on an iterable that is not an array takes the elements *)
(* one after another. The maps started are those of the first elements of  *)
(* the iteration, in order, and every one before the last has fulfilled:   *)
(* an element is pulled and its map started only when the map before it    *)
(* has fulfilled, and none is pulled behind a map that rejected, with      *)
(* whose error the call rejects. The call fulfils when every element has   *)
(* been mapped, with the outputs in the order of the iteration.            *)

C28_ElementsOneAfterAnother ==
    (engine = "async" /\ call.op = "array" /\ ~IsNullish(call.input)
        /\ call.input.kind = "iterable") =>
        /\ Len(tasks) <= Len(call.input.items)
        /\ \A n \in 1..Len(tasks) :
            /\ tasks[n].input = call.input.items[n]
            /\ n < Len(tasks) => tasks[n].state = "fulfilled"
        /\ Len(tasks) < Len(call.input.items) => Len(tasks) >= 1
        /\ (Len(tasks) >= 1 /\ tasks[Len(tasks)].state = "awaiting") => result = NoResult
        /\ (Len(tasks) >= 1 /\ tasks[Len(tasks)].state = "rejected") =>
            result = [status |-> "threw", value |-> tasks[Len(tasks)].value]
        /\ (\A n \in 1..Len(tasks) : tasks[n].state = "fulfilled") =>
            /\ Len(tasks) = Len(call.input.items)
            /\ result = [status |-> "returned",
                         value |-> Arr([n \in 1..Len(tasks) |-> tasks[n].value])]

\* the map of the first of two elements has rejected: the call has
\* rejected and the second element was never pulled
C28_Witness ==
    /\ engine = "async"
    /\ call.op = "array"
    /\ call.input.kind = "iterable"
    /\ Len(call.input.items) = 2
    /\ call.input.items[2] # Undefined
    /\ Len(tasks) = 1
    /\ tasks[1].state = "rejected"
    /\ result.status = "threw"

----------------------------------------------------------------------------
(* C29: an engine maps with the rules it took at construction. Whatever    *)
(* the caller does to the schema object afterwards (a rule added, removed  *)
(* or replaced, also while a call is at an await), the rule map of the     *)
(* engine has the keys, the order and the rules the schema object had when *)
(* the engine was built, and every map call gives what those rules give;   *)
(* the schema property of the engine and of the callable of toFunction is  *)
(* the reference to the object of the caller, changes included.            *)

\* the rule map of the schema object as it was at construction
RulesAtConstruction == constructor(Obj(ObjectLiteral(decl)))

C29_RulesAreThoseOfConstruction ==
    engine # "none" =>
        /\ schemaMap = RulesAtConstruction
        /\ This.schema = Ref("schema")
        /\ call.op = "toFunction" => result.value.schema = Ref("schema")
        /\ call.op = "map" =>
               result = Completion(map(RulesAtConstruction, call.input, call.context))
        /\ \A n \in 1..Len(tasks) :
               LET alone == asyncMapRun(RulesAtConstruction,
                                asyncMap(RulesAtConstruction, tasks[n].input, tasks[n].context))
               IN  /\ tasks[n].state # "awaiting" =>
                       tasks[n].state = alone.state /\ tasks[n].value = alone.value
                   /\ tasks[n].state = "awaiting" => asyncMapRun(schemaMap, tasks[n]) = alone

\* the caller has changed the schema object; a map call made afterwards
\* returned what the rules of construction give, which is not what the
\* rules of the changed object would give
C29_Witness ==
    /\ engine = "sync"
    /\ schema # Obj(ObjectLiteral(decl))
    /\ call.op = "map"
    /\ result.status = "returned"
    /\ result.value.kind = "object"
    /\ map(constructor(schema), call.input, call.context).value # result.value

----------------------------------------------------------------------------
(* C30: MapperBuilder is immutable. get and context put a new builder on   *)
(* the heap whose list is the list of the receiver followed by the getter, *)
(* and no builder or function that was there changes, the receiver         *)
(* included; so a function built from a builder gives the same after other *)
(* builders were derived from that builder. A call of a built function     *)
(* gives what its transforms give applied one to the result of the other   *)
(* in the order they were added, each with the context of the call: the    *)
(* input itself when there is none, the error of the first that throws.    *)

\* the last transform applied to what the transforms before it give
RECURSIVE Piped(_, _, _)
Piped(transforms, input, ctx) ==
    IF transforms = <<>> THEN Normal(input)
    ELSE LET front == Piped(SubSeq(transforms, 1, Len(transforms) - 1), input, ctx)
             last == Invoke(transforms[Len(transforms)], front.value, ctx)
         IN  IF front.threw THEN front ELSE [threw |-> last.threw, value |-> last.value]

C30_BuiltFunctionPipes ==
    call.op = "built" =>
        LET transforms == heap[heap[call.this].this].transforms
        IN  /\ result = Completion(Piped(transforms, call.input, call.context))
            /\ transforms = <<>> => result = [status |-> "returned", value |-> call.input]

C30_BuildersNeverChange ==
    /\ \A n \in 1..Len(heap) : heap'[n] = heap[n]
    /\ call'.op \in {"get", "context"} /\ heap' # heap =>
        /\ Len(heap') = Len(heap) + 1
        /\ heap'[Len(heap')] =
               MapperBuilder(heap[call'.this].transforms \o <<call'.getter>>)
    /\ \A fn \in 1..Len(heap), input \in Items, ctx \in Contexts :
           heap[fn].kind = "function" =>
               built(heap', heap'[fn], input, ctx) = built(heap, heap[fn], input, ctx)

C30_BuilderIsImmutable == []C30_BuiltFunctionPipes /\ [][C30_BuildersNeverChange]_vars

\* a function built from a builder of one transform, called after a second
\* builder was derived from that builder: it gives what the one transform gives
C30_Witness ==
    /\ Len(heap) = 4
    /\ heap[2] = MapperBuilder(<<Fn("toUpperCase")>>)
    /\ heap[3] = [kind |-> "function", s |-> "built", this |-> 2]
    /\ heap[4] = MapperBuilder(<<Fn("toUpperCase"), Fn("null")>>)
    /\ call.op = "built"
    /\ call.this = 3
    /\ result = [status |-> "returned", value |-> Str("X")]

====
